---- MODULE Spec2Model ----
(***************************************************************************)
(* Model of the domain provisioning saga of dix105/deploy-script:          *)
(* runWorkflow / rollback / runWorkflowWithDeploy (index.ts), the provider *)
(* adapters they call (namecheap.ts, cloudflare.ts, vercel.ts) and         *)
(* validateConfig (config.ts).                                             *)
(*                                                                         *)
(* One action is one suspension point (await) of the code together with    *)
(* the synchronous code that follows it up to the next suspension point.   *)
(* The outcome of every HTTP exchange is drawn nondeterministically from   *)
(* the outcomes the adapter distinguishes.                                 *)
(***************************************************************************)
EXTENDS Integers, Sequences, FiniteSets, TLC

VARIABLES
    pc,       \* position of the run in runWorkflowWithDeploy / runWorkflow / rollback
    entry,    \* CLI command: "run" (runWorkflow) or "deploy-with-domain"
    domain,   \* the domain argument, as its dot-separated labels
    cfg,      \* the configuration fields that are non-empty (config.ts)
    state,    \* WorkflowState
    result,   \* WorkflowResult
    zone,     \* zoneResult.zone of step 3 (id and nameservers)
    rt,       \* locals of retry: the attempt about to be made, its options
    batch,    \* locals of createDNSRecords: records, next index, recordIds, errors
    verif,    \* step 6/7 locals: pending verification records, poll attempt
    rb,       \* rollback locals: caller ("try"/"catch"/"none"), next record index
    poll,     \* locals of a polling loop called on its own
    runs,     \* two runs in one process: config.vercel.projectId and each run's position
    dep,      \* calls of deployZipToVercel: each call's position and locals, and the
              \* extracted directory they share
    ext,      \* the providers' side: what exists and what this run created
    trace     \* history of provider calls, delays and operator warnings

vars == <<pc, entry, domain, cfg, state, result, zone, rt, batch, verif, rb, poll, runs,
          dep, ext, trace>>

----------------------------------------------------------------------------
(* Bounds *)

\* Largest number of verification records the hosting platform returns.
MaxVerif == 2

\* Largest batch handed to createDNSRecords when it is checked on its own.
MaxBatch == 3

\* Largest number of record ids in a WorkflowState handed to rollback when
\* it is checked on its own.
MaxRollbackIds == 2
MaxRetryAttempts == 4
MaxPollAttempts == 3
MaxZoneCalls == 3
MaxRunChecks == 2

----------------------------------------------------------------------------
(* Values *)

\* JavaScript's undefined; a template literal renders it as "undefined".
Undefined == "undefined"

\* a || b on strings where a may be undefined
OrElse(a, b) == IF a = Undefined THEN b ELSE a

Domains == { <<"example", "com">>, <<"localhost">> }

ConfigFields ==
    {"namecheap", "registrant", "cloudflare", "vercel.token",
     "vercel.projectId", "github.token"}

\* Identifier the DNS provider gives to the n-th record it creates.
RecordId(n) == "R" \o ToString(n)

Ev(api, op, arg, ok) == [api |-> api, op |-> op, arg |-> arg, ok |-> ok]

SeqToSet(s) == { s[i] : i \in 1..Len(s) }

----------------------------------------------------------------------------
(* config.ts *)

\* Faulty variant of validateConfig: a check for one provider also asks for
\* the credentials of the DNS provider and of the hosting platform.
validateConfig_AllProviders(service, c) ==
    IF service = "deploy"
    THEN "github.token" \in c /\ "vercel.token" \in c
    ELSE {service, "cloudflare", "vercel.token", "vercel.projectId"} \ {"vercel"} \subseteq c

\* validateConfig(service): TRUE iff it returns without throwing.
validateConfig(service, c) ==
    IF service = "deploy"
    THEN "github.token" \in c /\ "vercel.token" \in c
    ELSE IF service = "vercel"
    THEN "vercel.token" \in c /\ "vercel.projectId" \in c
    ELSE service \in c

validateConfigMessage(service) ==
    "Missing required " \o service \o " config"

----------------------------------------------------------------------------
(* namecheap.ts: the registrar adapter *)

AvailabilityHttp == {"available", "premium", "taken", "apiError", "noResult", "netError"}

\* checkAvailability(domain), by the outcome of its HTTP exchange.
checkAvailability(http) ==
    [available    |-> http \in {"available", "premium"},
     isPremium    |-> http = "premium",
     errorMessage |-> IF http = "apiError" THEN "api error"
                      ELSE IF http = "noResult" THEN "No domain check result returned"
                      ELSE IF http = "netError" THEN "network error"
                      ELSE Undefined]

\* splitDomain(domain): TRUE iff it returns without throwing.
splitDomain(d) == Len(d) >= 2

splitDomainMessage == "Invalid domain format"

PurchaseHttp ==
    {"registered", "notRegistered", "apiError", "noResult", "netError", "noAddress"}

\* Faulty variant of purchaseDomain: a failed purchase is reported as made.
purchaseDomain_ReportingSuccess(http) ==
    [success |-> TRUE, domainId |-> "D1", transactionId |-> "T1",
     errorMessage |-> Undefined]

\* purchaseDomain(domain, years, whoisGuard) once splitDomain has passed.
\* "noAddress": getDefaultAddress returned null, the create command is not sent.
purchaseDomain(http) ==
    [success       |-> http = "registered",
     domainId      |-> IF http \in {"registered", "notRegistered"} THEN "D1" ELSE Undefined,
     transactionId |-> IF http \in {"registered", "notRegistered"} THEN "T1" ELSE Undefined,
     errorMessage  |-> IF http = "apiError" THEN "api error"
                       ELSE IF http = "noResult" THEN "No domain create result returned"
                       ELSE IF http = "netError" THEN "network error"
                       ELSE IF http = "noAddress" THEN "Could not fetch default address"
                       ELSE Undefined]

NameserversHttp == {"updated", "notUpdated", "apiError", "netError"}

\* setNameservers(domain, nameservers) once splitDomain has passed: every
\* failure of the exchange is returned as a value, none is thrown.
setNameservers(http) ==
    [success      |-> http = "updated",
     errorMessage |-> IF http = "apiError" THEN "api error"
                      ELSE IF http = "netError" THEN "network error"
                      ELSE Undefined]

----------------------------------------------------------------------------
(* cloudflare.ts: the DNS provider adapter *)

NewZoneId == "Z1"
OldZoneId == "Z0"
ZoneNameservers == <<"ns1.x", "ns2.x">>

\* Outcomes of POST /zones: the provider answers with a conflict exactly
\* when it already holds a zone for the domain.
ZonePostHttp(existing) ==
    IF existing = Undefined THEN {"created", "bodyFail", "netError"}
    ELSE {"conflict", "netError"}

\* Outcomes of GET /zones?name= in fetchExistingZone.
ZoneFetchHttp(post) ==
    IF post = "conflict" THEN {"found", "empty", "netError"} ELSE {"none"}

fetchExistingZone(fetch, existing) ==
    IF fetch = "found"
    THEN [success |-> TRUE, alreadyExists |-> TRUE, zoneId |-> existing,
          errorMessage |-> Undefined]
    ELSE [success |-> FALSE, alreadyExists |-> FALSE, zoneId |-> Undefined,
          errorMessage |-> IF fetch = "empty" THEN "Zone not found" ELSE "network error"]

\* Faulty variant of createZone: a conflict is reported as a failure.
createZone_FailOnConflict(post, fetch, existing) ==
    IF post = "created"
    THEN [success |-> TRUE, alreadyExists |-> FALSE, zoneId |-> NewZoneId,
          errorMessage |-> Undefined]
    ELSE [success |-> FALSE, alreadyExists |-> FALSE, zoneId |-> Undefined,
          errorMessage |-> "zone already exists"]

createZone(post, fetch, existing) ==
    IF post = "created"
    THEN [success |-> TRUE, alreadyExists |-> FALSE, zoneId |-> NewZoneId,
          errorMessage |-> Undefined]
    ELSE IF post = "conflict"
    THEN fetchExistingZone(fetch, existing)
    ELSE [success |-> FALSE, alreadyExists |-> FALSE, zoneId |-> Undefined,
          errorMessage |-> IF post = "bodyFail" THEN "zone rejected" ELSE "network error"]

RecordHttp == {"ok", "bodyFail", "netError"}

\* createDNSRecord(zoneId, record); id is the identifier the provider assigns.
createDNSRecord(http, id) ==
    [success      |-> http = "ok",
     recordId     |-> IF http = "ok" THEN id ELSE Undefined,
     errorMessage |-> IF http = "bodyFail" THEN "record rejected"
                      ELSE IF http = "netError" THEN "network error"
                      ELSE Undefined]

\* Faulty variant of createDNSRecordsIssued: the calls for all remaining
\* records are started together.
createDNSRecordsIssued_AllAtOnce(b) == b.idx..Len(b.records)

\* The positions of the records whose createDNSRecord call the loop of
\* createDNSRecords starts when it reaches records[idx]: that one call,
\* which is awaited before the loop goes on.
createDNSRecordsIssued(b) == {b.idx}

\* Faulty variant of createDNSRecordsBody: after a first failure no further
\* id is collected.
createDNSRecordsBody_StopCollecting(b, r) ==
    IF r.success /\ r.recordId # Undefined /\ Len(b.errors) = 0
    THEN [b EXCEPT !.recordIds = Append(@, r.recordId), !.idx = @ + 1,
                   !.inFlight = @ \ {b.idx}]
    ELSE [b EXCEPT !.errors = Append(@, b.records[b.idx].type \o " " \o
                                        b.records[b.idx].name \o ": " \o
                                        OrElse(r.errorMessage, "skipped")),
                   !.idx = @ + 1, !.inFlight = @ \ {b.idx}]

\* The body of the loop of createDNSRecords: b holds records, idx, recordIds
\* and errors; r is the result of createDNSRecord for records[idx].
createDNSRecordsBody(b, r) ==
    IF r.success /\ r.recordId # Undefined
    THEN [b EXCEPT !.recordIds = Append(@, r.recordId), !.idx = @ + 1,
                   !.inFlight = @ \ {b.idx}]
    ELSE [b EXCEPT !.errors = Append(@, b.records[b.idx].type \o " " \o
                                        b.records[b.idx].name \o ": " \o r.errorMessage),
                   !.idx = @ + 1, !.inFlight = @ \ {b.idx}]

\* The value createDNSRecords returns once its loop has ended.
createDNSRecordsResult(b) ==
    [success |-> Len(b.errors) = 0, recordIds |-> b.recordIds, errors |-> b.errors]

\* deleteDNSRecord(zoneId, recordId): every failure is returned as a value.
deleteDNSRecord(http) ==
    [success      |-> http = "ok",
     errorMessage |-> IF http = "bodyFail" THEN "delete rejected"
                      ELSE IF http = "netError" THEN "network error"
                      ELSE Undefined]

----------------------------------------------------------------------------
(* vercel.ts: the hosting platform adapter *)

\* getVercelDNSRecords(domain): type and name of the hosting-target records.
getVercelDNSRecords ==
    << [type |-> "A", name |-> "@"], [type |-> "CNAME", name |-> "www"] >>

VerificationTypes == {"TXT", "CNAME"}

\* The verification arrays the platform may return with an unverified domain.
VerificationLists ==
    UNION { [1..n -> VerificationTypes] : n \in 0..MaxVerif }

DomainDataHttp == {"verified", "unverified", "needsVerification", "error"}

\* Outcomes of POST /domains: a conflict exactly when the project already
\* has the domain.
AddPostHttp(present) ==
    IF present THEN {"conflict", "error"} ELSE DomainDataHttp

\* Outcomes of GET /domains/<domain> in getDomainStatus.
AddStatusHttp(post) ==
    IF post = "conflict" THEN DomainDataHttp ELSE {"none"}

\* What addDomain and getDomainStatus both make of the platform's answer;
\* v is the verification array of the answer.
domainDataResult(http, v) ==
    IF http = "error"
    THEN [success |-> FALSE, verificationRequired |-> FALSE,
          verificationRecords |-> <<>>, errorMessage |-> "vercel error"]
    ELSE [success |-> TRUE, verificationRequired |-> http = "needsVerification",
          verificationRecords |-> IF http = "needsVerification" THEN v ELSE <<>>,
          errorMessage |-> Undefined]

getDomainStatus(status, v) == domainDataResult(status, v)

\* Faulty variant of addDomain: a conflict is returned as a failure.
addDomain_FailOnConflict(post, status, v) ==
    IF post = "conflict" THEN domainDataResult("error", v)
    ELSE domainDataResult(post, v)

addDomain(post, status, v) ==
    IF post = "conflict" THEN getDomainStatus(status, v)
    ELSE domainDataResult(post, v)

VerifyHttp == {"verified", "pending", "error"}

\* verifyDomain(domain)
verifyDomain(http) ==
    [success |-> http # "error", verified |-> http = "verified"]

RemoveHttp == {"ok", "error"}

\* removeDomain(domain): every failure is returned as a value.
removeDomain(http) ==
    [success      |-> http = "ok",
     errorMessage |-> IF http = "ok" THEN Undefined ELSE "remove failed"]

----------------------------------------------------------------------------
(* utils.ts: retry *)

DefaultMaxDelayMs == 30000

Min(a, b) == IF a <= b THEN a ELSE b

\* Math.min(initialDelayMs * Math.pow(2, attempt - 1), maxDelayMs)
\* Faulty variant of retryDelay: the delay is not capped at maxDelayMs.
retryDelay_Uncapped(attempt, initialDelayMs, maxDelayMs) ==
    initialDelayMs * 2 ^ (attempt - 1)

retryDelay(attempt, initialDelayMs, maxDelayMs) ==
    Min(initialDelayMs * 2 ^ (attempt - 1), maxDelayMs)

----------------------------------------------------------------------------
(* index.ts: WorkflowState, WorkflowResult *)

RECURSIVE DomainText(_)
\* The domain as one string: its labels joined by dots.
DomainText(d) ==
    IF Len(d) = 0 THEN ""
    ELSE IF Len(d) = 1 THEN d[1]
    ELSE d[1] \o "." \o DomainText(Tail(d))

\* An optional value that is not a string: absent, or present with value v.
None == <<>>
Some(v) == <<v>>

InitialState ==
    [domainPurchased     |-> FALSE,
     cloudflareZoneId    |-> Undefined,
     cloudflareRecordIds |-> <<>>,
     vercelDomainAdded   |-> FALSE]

StepNames ==
    {"availabilityCheck", "domainPurchase", "cloudflareZone", "nameserversSet",
     "dnsRecords", "vercelDomain", "vercelVerified"}

InitialResult ==
    [success |-> FALSE,
     steps   |-> [n \in StepNames |-> FALSE],
     details |-> [domainId              |-> Undefined,
                  transactionId         |-> Undefined,
                  cloudflareZoneId      |-> Undefined,
                  cloudflareNameservers |-> None,
                  dnsRecordIds          |-> None],
     errors  |-> <<>>]

\* Faulty variant of AllSteps: the verification flag is left out.
AllSteps_IgnoringVerified(steps) ==
    \A n \in StepNames \ {"vercelVerified"} : steps[n]

\* Object.values(result.steps).every((step) => step === true)
AllSteps(steps) == \A n \in StepNames : steps[n]

NoZone == [id |-> Undefined, nameServers |-> <<>>]
NoRetry == [attempt |-> 1]
NoBatch ==
    [records |-> <<>>, idx |-> 1, inFlight |-> {}, recordIds |-> <<>>, errors |-> <<>>,
     ret |-> "none"]
NoVerif == [returned |-> <<>>, records |-> <<>>, idx |-> 1, attempt |-> 0]
NoRollback == [from |-> "none", idx |-> 1]
NoPoll == [loop |-> "none", attempt |-> 0, maxAttempts |-> 0, ret |-> "none"]
\* No call of deployZipToVercel, no extracted directory.
NoDep == [dir |-> "none", calls |-> <<>>]
NoRuns == [projectId |-> Undefined, pc |-> <<>>, sel |-> <<>>, checks |-> <<>>, calls |-> <<>>]

\* The providers' side at the start of a run: zone is the id of the zone the
\* DNS provider holds for the domain, hostingPresent whether the hosting
\* project has the domain; purchased, zoneCreated, records and hostingAdded
\* are the resources this run has created so far, deleted the records it
\* has deleted again, recordZones the zones in which it has asked for a
\* record, delegation the nameservers the registrar holds for the domain.
InitialExt ==
    [zone |-> Undefined, hostingPresent |-> FALSE,
     purchased |-> FALSE, zoneCreated |-> FALSE, records |-> {}, recordZones |-> {},
     hostingAdded |-> FALSE, deleted |-> {}, nextId |-> 1, delegation |-> <<>>]

Init ==
    /\ entry \in {"run", "deploy-with-domain"}
    /\ pc = IF entry = "run" THEN "step1" ELSE "deploy"
    /\ domain \in Domains
    /\ cfg \in SUBSET ConfigFields
    /\ state = InitialState
    /\ result = InitialResult
    /\ zone = NoZone
    /\ rt = NoRetry
    /\ batch = NoBatch
    /\ verif = NoVerif
    /\ rb = NoRollback
    /\ poll = NoPoll
    /\ runs = NoRuns
    /\ \E z \in {Undefined, OldZoneId}, h \in BOOLEAN :
          ext = [InitialExt EXCEPT !.zone = z, !.hostingPresent = h]
    /\ dep = NoDep
    /\ trace = <<>>

----------------------------------------------------------------------------
(* index.ts: runWorkflowWithDeploy, step 0 *)

DeployOutcomes == {"failed", "threw", "deployed", "deployedNoId"}

\* validateConfig('deploy') and deployZipToVercel, then either the failure
\* result or setVercelProjectId and the call of runWorkflow.
Deploy ==
    /\ pc = "deploy"
    /\ IF ~validateConfig("deploy", cfg)
       THEN /\ pc' = "rejected"
            /\ UNCHANGED <<cfg, result, trace>>
       ELSE \E out \in DeployOutcomes :
              /\ trace' = Append(trace, Ev("deploy", "deployZipToVercel", "",
                                           out \in {"deployed", "deployedNoId"}))
              /\ IF out = "threw"
                 THEN pc' = "rejected" /\ UNCHANGED <<cfg, result>>
                 ELSE IF out = "failed"
                 THEN /\ pc' = "done"
                      /\ result' = [InitialResult EXCEPT
                                      !.errors = <<"Deploy: " \o "deploy failed">>]
                      /\ cfg' = cfg
                 ELSE /\ pc' = "step1"
                      /\ cfg' = IF out = "deployed"
                                THEN cfg \cup {"vercel.projectId"} ELSE cfg
                      /\ result' = result
    /\ UNCHANGED <<runs, poll, entry, dep, domain, state, zone, rt, batch, verif, rb, ext>>

----------------------------------------------------------------------------
(* index.ts: runWorkflow *)

RollbackMark == Ev("log", "rollback", "", TRUE)

\* Faulty variant of Caught: the fault is recorded and the run returns.
Caught_WithoutRollback(msg, tr) ==
    /\ result' = [result EXCEPT !.errors = Append(@, "Unexpected: " \o msg)]
    /\ pc' = "done"
    /\ rb' = rb
    /\ trace' = tr

\* The catch block of runWorkflow up to the first suspension of rollback.
Caught(msg, tr) ==
    /\ result' = [result EXCEPT !.errors = Append(@, "Unexpected: " \o msg)]
    /\ pc' = "rb_hosting"
    /\ rb' = [from |-> "catch", idx |-> 1]
    /\ trace' = Append(tr, RollbackMark)

\* `await rollback(state)` in a failure branch inside the try block.
RollbackInTry(res, tr) ==
    /\ result' = res
    /\ pc' = "rb_hosting"
    /\ rb' = [from |-> "try", idx |-> 1]
    /\ trace' = Append(tr, RollbackMark)

\* A step's early `return result`, or its fall-through to the next step.
Goto(label, res, tr) ==
    /\ result' = res
    /\ pc' = label
    /\ rb' = rb
    /\ trace' = tr

Step1Availability ==
    /\ pc = "step1"
    /\ IF ~validateConfig("namecheap", cfg)
       THEN Caught(validateConfigMessage("namecheap"), trace)
       ELSE \E http \in AvailabilityHttp :
              LET r  == checkAvailability(http)
                  tr == Append(trace, Ev("registrar", "checkAvailability", "", r.available))
              IN  IF ~r.available
                  THEN Goto("done",
                            [result EXCEPT !.errors = Append(@, "Availability: " \o
                                 OrElse(r.errorMessage, "Domain is not available"))],
                            tr)
                  ELSE Goto("step2",
                            [result EXCEPT !.steps.availabilityCheck = TRUE], tr)
    /\ UNCHANGED <<runs, poll, entry, dep, domain, cfg, state, zone, rt, batch, verif, ext>>

Step2Purchase ==
    /\ pc = "step2"
    /\ IF ~validateConfig("registrant", cfg)
       THEN Caught(validateConfigMessage("registrant"), trace) /\ UNCHANGED <<state, ext>>
       ELSE IF ~splitDomain(domain)
       THEN Caught(splitDomainMessage, trace) /\ UNCHANGED <<state, ext>>
       ELSE \E http \in PurchaseHttp :
              LET r  == purchaseDomain(http)
                  tr == IF http = "noAddress" THEN trace
                        ELSE Append(trace, Ev("registrar", "purchaseDomain", "", r.success))
              IN  /\ ext' = [ext EXCEPT !.purchased = (http = "registered")]
                  /\ IF ~r.success
                     THEN /\ Goto("done",
                                  [result EXCEPT !.errors =
                                       Append(@, "Purchase: " \o r.errorMessage)], tr)
                          /\ state' = state
                     ELSE /\ state' = [state EXCEPT !.domainPurchased = TRUE]
                          /\ Goto("step3",
                                  [result EXCEPT !.steps.domainPurchase = TRUE,
                                                 !.details.domainId = r.domainId,
                                                 !.details.transactionId = r.transactionId],
                                  tr)
    /\ UNCHANGED <<runs, poll, entry, dep, domain, cfg, zone, rt, batch, verif>>

Step3Zone ==
    /\ pc = "step3"
    /\ IF ~validateConfig("cloudflare", cfg)
       THEN Caught(validateConfigMessage("cloudflare"), trace)
            /\ UNCHANGED <<state, zone, ext>>
       ELSE \E post \in ZonePostHttp(ext.zone) : \E fetch \in ZoneFetchHttp(post) :
              LET r   == createZone(post, fetch, ext.zone)
                  tr1 == Append(trace, Ev("dns", "createZone", "", post = "created"))
                  tr  == IF post = "conflict"
                         THEN Append(tr1, Ev("dns", "fetchExistingZone", "", r.success))
                         ELSE tr1
              IN  /\ ext' = IF post = "created"
                            THEN [ext EXCEPT !.zone = NewZoneId, !.zoneCreated = TRUE]
                            ELSE ext
                  /\ IF ~r.success \/ r.zoneId = Undefined
                     THEN /\ RollbackInTry(
                                [result EXCEPT !.errors =
                                     Append(@, "Cloudflare Zone: " \o r.errorMessage)], tr)
                          /\ UNCHANGED <<state, zone>>
                     ELSE /\ state' = [state EXCEPT !.cloudflareZoneId = r.zoneId]
                          /\ zone' = [id |-> r.zoneId, nameServers |-> ZoneNameservers]
                          /\ Goto("step4",
                                  [result EXCEPT
                                     !.steps.cloudflareZone = TRUE,
                                     !.details.cloudflareZoneId = r.zoneId,
                                     !.details.cloudflareNameservers = Some(ZoneNameservers)],
                                  tr)
    /\ UNCHANGED <<runs, poll, entry, dep, domain, cfg, rt, batch, verif>>

NsMaxAttempts == 3
NsInitialDelayMs == 5000

\* One attempt of retry(() => setNameservers(...), {maxAttempts: 3,
\* initialDelayMs: 5000}).  The operation throws only where splitDomain
\* throws; every failure of the exchange comes back as a value, which retry
\* returns like any other value.
Step4Nameservers ==
    /\ pc = "step4"
    /\ IF ~splitDomain(domain)
       THEN IF rt.attempt = NsMaxAttempts
            THEN Caught(splitDomainMessage, trace) /\ rt' = rt /\ ext' = ext
            ELSE /\ ext' = ext
                 /\ trace' = Append(
                       Append(trace, Ev("log", "onRetry", ToString(rt.attempt), TRUE)),
                       Ev("timer", "delay",
                          ToString(retryDelay(rt.attempt, NsInitialDelayMs,
                                              DefaultMaxDelayMs)), TRUE))
                 /\ rt' = [rt EXCEPT !.attempt = @ + 1]
                 /\ UNCHANGED <<pc, result, rb>>
       ELSE \E http \in NameserversHttp :
              LET r  == setNameservers(http)
                  tr == Append(trace, Ev("registrar", "setNameservers", "", r.success))
              IN  /\ rt' = rt
                  /\ ext' = IF r.success
                            THEN [ext EXCEPT !.delegation = zone.nameServers]
                            ELSE ext
                  /\ IF ~r.success
                     THEN RollbackInTry(
                              [result EXCEPT !.errors =
                                   Append(@, "Nameservers: " \o r.errorMessage)], tr)
                     ELSE Goto("batch",
                               [result EXCEPT !.steps.nameserversSet = TRUE], tr)
    /\ batch' = IF pc' = "batch"
                THEN [records   |-> [i \in 1..Len(getVercelDNSRecords) |->
                                       [type |-> getVercelDNSRecords[i].type,
                                        name |-> IF getVercelDNSRecords[i].name = "@"
                                                 THEN DomainText(domain)
                                                 ELSE getVercelDNSRecords[i].name]],
                      idx |-> 1, inFlight |-> {}, recordIds |-> <<>>, errors |-> <<>>,
                      ret |-> "step5"]
                ELSE batch
    /\ UNCHANGED <<runs, poll, entry, dep, domain, cfg, state, zone, verif>>

\* Faulty variant of Step5Result: the errors of the batch are not recorded.
Step5Result_DroppingErrors(res, r) ==
    [res EXCEPT !.details.dnsRecordIds = Some(r.recordIds),
                !.steps.dnsRecords = r.success]

\* The synchronous end of step 5, once createDNSRecords has returned r.
Step5Result(res, r) ==
    [res EXCEPT !.details.dnsRecordIds = Some(r.recordIds),
                !.errors = IF ~r.success THEN @ \o r.errors ELSE @,
                !.steps.dnsRecords = r.success]

\* Faulty variant of Step5Aborts: a failed batch rolls back and returns.
Step5Aborts_OnFailure(r) == ~r.success

\* Whether a failed batch makes step 5 roll back and return: the branch for
\* !dnsResult.success only logs and records the errors, so never.
Step5Aborts(r) == FALSE

\* The loop of createDNSRecords reaches records[idx] and starts the call of
\* createDNSRecord for it.
CreateDNSRecordsIssue ==
    /\ pc = "batch"
    /\ batch.idx <= Len(batch.records)
    /\ batch.idx \notin batch.inFlight
    /\ batch' = [batch EXCEPT !.inFlight = @ \cup createDNSRecordsIssued(batch)]
    /\ UNCHANGED <<pc, entry, dep, domain, cfg, state, result, zone, rt, verif, rb, poll,
                   runs, ext, trace>>

\* The awaited call for records[idx] completes and the iteration ends; after
\* the last one the function returns, in a run to the rest of step 5.
CreateDNSRecordsStep ==
    /\ pc = "batch"
    /\ batch.idx <= Len(batch.records)
    /\ batch.idx \in batch.inFlight
    /\ \E http \in RecordHttp :
         LET id == RecordId(ext.nextId)
             r  == createDNSRecord(http, id)
             b  == createDNSRecordsBody(batch, r)
             tr == Append(trace, Ev("dns", "createDNSRecord", r.recordId, r.success))
         IN  /\ batch' = b
             /\ ext' = IF r.success
                       THEN [ext EXCEPT !.records = @ \cup {id}, !.nextId = @ + 1,
                                        !.recordZones = @ \cup {zone.id}]
                       ELSE [ext EXCEPT !.recordZones = @ \cup {zone.id}]
             /\ IF b.idx <= Len(b.records)
                THEN trace' = tr /\ UNCHANGED <<pc, state, result, rb>>
                ELSE IF b.ret = "step5"
                THEN /\ state' = [state EXCEPT !.cloudflareRecordIds =
                                      createDNSRecordsResult(b).recordIds]
                     /\ IF Step5Aborts(createDNSRecordsResult(b))
                        THEN RollbackInTry(
                                 Step5Result(result, createDNSRecordsResult(b)), tr)
                        ELSE /\ result' = Step5Result(result, createDNSRecordsResult(b))
                             /\ pc' = "step6"
                             /\ trace' = tr
                             /\ rb' = rb
                ELSE /\ pc' = "batch_done"
                     /\ trace' = tr
                     /\ UNCHANGED <<state, result, rb>>
    /\ UNCHANGED <<runs, poll, entry, dep, domain, cfg, zone, rt, verif>>

\* Faulty variant of IsTxt: every verification record is created.
IsTxt_AnyType(t) == TRUE

\* The verification records step 6 creates: those of type TXT.
IsTxt(t) == t = "TXT"

Step6AddDomain ==
    /\ pc = "step6"
    /\ IF ~validateConfig("vercel", cfg)
       THEN Caught(validateConfigMessage("vercel"), trace)
            /\ UNCHANGED <<state, verif, ext>>
       ELSE \E post \in AddPostHttp(ext.hostingPresent) :
            \E status \in AddStatusHttp(post) :
            \E v \in IF "needsVerification" \in {post, status}
                     THEN VerificationLists ELSE {<<>>} :
              LET r   == addDomain(post, status, v)
                  tr1 == Append(trace, Ev("hosting", "addDomain", "",
                                          post \notin {"conflict", "error"}))
                  tr  == IF post = "conflict"
                         THEN Append(tr1, Ev("hosting", "getDomainStatus", status, r.success))
                         ELSE tr1
                  txt == SelectSeq(r.verificationRecords, IsTxt)
              IN  /\ ext' = IF post \notin {"conflict", "error"}
                            THEN [ext EXCEPT !.hostingPresent = TRUE, !.hostingAdded = TRUE]
                            ELSE ext
                  /\ IF ~r.success
                     THEN /\ RollbackInTry(
                                [result EXCEPT !.errors =
                                     Append(@, "Vercel Add: " \o r.errorMessage)], tr)
                          /\ UNCHANGED <<state, verif>>
                     ELSE /\ state' = [state EXCEPT !.vercelDomainAdded = TRUE]
                          /\ verif' = [returned |-> r.verificationRecords,
                                       records |-> IF r.verificationRequired
                                                   THEN txt ELSE <<>>,
                                       idx |-> 1, attempt |-> 1]
                          /\ Goto(IF r.verificationRequired /\ Len(txt) > 0
                                  THEN "step6_txt" ELSE "step7",
                                  [result EXCEPT !.steps.vercelDomain = TRUE], tr)
    /\ UNCHANGED <<runs, poll, entry, dep, domain, cfg, zone, rt, batch>>

\* Faulty variant of Step6TxtResult: the result keeps an array of its own,
\* which the push onto the state's array does not reach.
Step6TxtResult_OwnArray(res, r, ids) == res

\* Faulty variant of Step6TxtResult: a failed creation is recorded.
Step6TxtResult_RecordingFailure(res, r, ids) ==
    [res EXCEPT !.details.dnsRecordIds = Some(ids),
                !.errors = IF r.success THEN @
                           ELSE Append(@, "Verification TXT: " \o r.errorMessage)]

\* What the body of the verification loop leaves in the result once
\* createDNSRecord has returned r and ids are the state's record ids: the
\* shared array of ids, nothing else.
Step6TxtResult(res, r, ids) == [res EXCEPT !.details.dnsRecordIds = Some(ids)]

\* One createDNSRecord of the verification loop of step 6.  The array that
\* state.cloudflareRecordIds names is the one result.details.dnsRecordIds
\* names (both were assigned dnsResult.recordIds), so the push shows in both.
Step6TxtRecord ==
    /\ pc = "step6_txt"
    /\ \E http \in RecordHttp :
         LET id == RecordId(ext.nextId)
             r  == createDNSRecord(http, id)
             pushed == r.success /\ r.recordId # Undefined
             ids == IF pushed THEN Append(state.cloudflareRecordIds, r.recordId)
                    ELSE state.cloudflareRecordIds
         IN  /\ trace' = Append(trace, Ev("dns", "createDNSRecord", r.recordId, r.success))
             /\ ext' = IF r.success
                       THEN [ext EXCEPT !.records = @ \cup {id}, !.nextId = @ + 1,
                                        !.recordZones = @ \cup {zone.id}]
                       ELSE [ext EXCEPT !.recordZones = @ \cup {zone.id}]
             /\ state' = [state EXCEPT !.cloudflareRecordIds = ids]
             /\ result' = Step6TxtResult(result, r, ids)
             /\ verif' = [verif EXCEPT !.idx = @ + 1]
             /\ pc' = IF verif.idx < Len(verif.records) THEN "step6_txt" ELSE "step7"
    /\ UNCHANGED <<runs, poll, entry, dep, domain, cfg, zone, rt, batch, rb>>

VerifyMaxAttempts == 10
VerifyIntervalMs == 30000

\* Faulty variant of Complete: success is left as it was initialised.
Complete_Unset(res) == res

\* COMPLETE: result.success is computed from the step flags.
Complete(res) == [res EXCEPT !.success = AllSteps(res.steps)]

VerificationError == "Vercel Verification: Failed after 10 attempts - requires manual review"

\* Faulty variant of Step7Failed: the entry replaces the errors so far.
Step7Failed_Overwriting(res) == [res EXCEPT !.errors = <<VerificationError>>]

\* The branch of step 7 for !verified: the entry is pushed onto the errors.
Step7Failed(res) == [res EXCEPT !.errors = Append(@, VerificationError)]

\* Faulty variant of Step7Aborts: an unverified domain rolls the run back.
Step7Aborts_OnUnverified(verified) == ~verified

\* Whether the outcome of the verification wait makes step 7 roll back and
\* return: the branch for !verified only logs and records the error, so never.
Step7Aborts(verified) == FALSE

\* Faulty variant of verificationGoesOn: one more check after the last.
verificationGoesOn_OnceMore(attempt, maxAttempts) == attempt <= maxAttempts

\* Whether waitForDomainVerification delays and checks again after the
\* unverified check number attempt.
verificationGoesOn(attempt, maxAttempts) == attempt < maxAttempts

\* One iteration of waitForDomainVerification(domain, 10, 30000); when the
\* loop ends, the rest of step 7 and COMPLETE.
Step7Verify ==
    /\ pc = "step7"
    /\ \E http \in VerifyHttp :
         LET r  == verifyDomain(http)
             tr == Append(trace, Ev("hosting", "verifyDomain", "", r.verified))
         IN  IF r.verified
             THEN /\ Goto("done", Complete([result EXCEPT !.steps.vercelVerified = TRUE]), tr)
                  /\ verif' = verif
             ELSE IF verificationGoesOn(verif.attempt, VerifyMaxAttempts)
             THEN /\ verif' = [verif EXCEPT !.attempt = @ + 1]
                  /\ trace' = Append(tr, Ev("timer", "delay", ToString(VerifyIntervalMs), TRUE))
                  /\ UNCHANGED <<pc, result, rb>>
             ELSE /\ IF Step7Aborts(FALSE)
                     THEN RollbackInTry(Step7Failed(result), tr)
                     ELSE Goto("done", Complete(Step7Failed(result)), tr)
                  /\ verif' = verif
    /\ UNCHANGED <<runs, poll, entry, dep, domain, cfg, state, zone, rt, batch, ext>>

----------------------------------------------------------------------------
(* index.ts: rollback *)

\* Faulty variant of RollbackEscalates: a failed call is thrown on.
RollbackEscalates_OnFailure(r) == ~r.success

\* Whether a failed compensation call leaves its try/catch as an exception:
\* the adapters return failures as values and each call is wrapped, so never.
RollbackEscalates(r) == FALSE

\* Faulty variant of RollbackDeletesRecords: a single record is not deleted.
RollbackDeletesRecords_OffByOne(st) ==
    st.cloudflareZoneId # Undefined /\ Len(st.cloudflareRecordIds) > 1

\* if (state.cloudflareZoneId && state.cloudflareRecordIds.length > 0)
RollbackDeletesRecords(st) ==
    st.cloudflareZoneId # Undefined /\ Len(st.cloudflareRecordIds) > 0

\* Faulty variant of RollbackWarnsManual: the warning is unconditional.
RollbackWarnsManual_Always(st) == TRUE

\* Whether rollback emits the cannot-be-refunded warning.
RollbackWarnsManual(st) == st.domainPurchased

ManualWarning == Ev("log", "manualRefundWarning", "", TRUE)

\* Faulty variant of RollbackDeletesZone: the zone of the run is deleted.
RollbackDeletesZone_WhenKnown(st) == st.cloudflareZoneId # Undefined

\* Whether rollback deletes the zone: it has no statement for the zone, so
\* never.
RollbackDeletesZone(st) == FALSE

\* An exception leaving rollback: inside the try block it reaches the catch
\* block of runWorkflow, inside the catch block it rejects runWorkflow.
RollbackRaised(tr) ==
    IF rb.from = "try"
    THEN Caught("rollback failed", tr)
    ELSE /\ pc' = "rejected"
         /\ trace' = tr
         /\ UNCHANGED <<result, rb>>

RollbackRemoveDomain ==
    /\ pc = "rb_hosting"
    /\ IF state.vercelDomainAdded
       THEN \E http \in RemoveHttp :
              LET r  == removeDomain(http)
                  tr == Append(trace, Ev("hosting", "removeDomain", "", r.success))
              IN  /\ ext' = IF r.success
                            THEN [ext EXCEPT !.hostingPresent = FALSE]
                            ELSE ext
                  /\ IF RollbackEscalates(r)
                     THEN RollbackRaised(tr)
                     ELSE /\ pc' = "rb_records"
                          /\ trace' = tr
                          /\ UNCHANGED <<result, rb>>
       ELSE /\ pc' = "rb_records"
            /\ UNCHANGED <<result, rb, trace, ext>>
    /\ UNCHANGED <<runs, poll, entry, dep, domain, cfg, state, zone, rt, batch, verif>>

\* Faulty variant of deleteDNSRecordsNext: the loop ends at a failed deletion.
deleteDNSRecordsNext_StopOnFailure(idx, r, n) == IF r.success THEN idx + 1 ELSE n + 1

\* for (const recordId of recordIds): the position the loop of
\* deleteDNSRecords goes to after the deletion at idx returned r.
deleteDNSRecordsNext(idx, r, n) == idx + 1

\* One iteration of the loop of deleteDNSRecords.
RollbackDeleteRecord ==
    /\ pc = "rb_records"
    /\ RollbackDeletesRecords(state)
    /\ rb.idx <= Len(state.cloudflareRecordIds)
    /\ \E http \in RecordHttp :
         LET id == state.cloudflareRecordIds[rb.idx]
             r  == deleteDNSRecord(http)
             tr == Append(trace, Ev("dns", "deleteDNSRecord", id, r.success))
         IN  /\ ext' = IF r.success THEN [ext EXCEPT !.deleted = @ \cup {id}] ELSE ext
             /\ IF RollbackEscalates(r)
                THEN RollbackRaised(tr)
                ELSE /\ rb' = [rb EXCEPT !.idx = deleteDNSRecordsNext(@, r,
                                              Len(state.cloudflareRecordIds))]
                     /\ trace' = tr
                     /\ UNCHANGED <<pc, result>>
    /\ UNCHANGED <<runs, poll, entry, dep, domain, cfg, state, zone, rt, batch, verif>>

\* The end of rollback (the warning about the purchase) and the
\* `return result` that follows every call of rollback.
RollbackFinish ==
    /\ pc = "rb_records"
    /\ ~(RollbackDeletesRecords(state) /\ rb.idx <= Len(state.cloudflareRecordIds))
    /\ LET tr == IF RollbackDeletesZone(state)
                 THEN Append(trace, Ev("dns", "deleteZone", state.cloudflareZoneId, TRUE))
                 ELSE trace
       IN  trace' = IF RollbackWarnsManual(state) THEN Append(tr, ManualWarning) ELSE tr
    /\ ext' = IF RollbackDeletesZone(state) THEN [ext EXCEPT !.zone = Undefined] ELSE ext
    /\ pc' = "done"
    /\ UNCHANGED <<runs, poll, entry, dep, domain, cfg, state, result, zone, rt, batch, verif, rb>>

----------------------------------------------------------------------------
(* utils.ts: retry(fn, options) on its own *)

DefaultMaxAttempts == 3
DefaultInitialDelayMs == 1000

\* The values of the options a call of retry is made with.
RetryInitialDelays == {DefaultInitialDelayMs, NsInitialDelayMs}
RetryMaxDelays == {DefaultMaxDelayMs, 3000}

\* What one call of fn does: it resolves with one of two values, or it
\* rejects with one of two errors.
FnValues == {"V1", "V2"}
FnOutcomes == FnValues \cup {"E1", "E2"}

\* The locals of a call of retry after the destructuring of its options.
RetryCall(m, d0, dm, h) ==
    [attempt |-> 1, maxAttempts |-> m, initialDelayMs |-> d0, maxDelayMs |-> dm,
     onRetry |-> h, lastError |-> Undefined, delayMs |-> 0, thrown |-> Undefined,
     returned |-> Undefined]

\* Faulty variant of onRetryArgs: the number of the coming attempt is passed.
onRetryArgs_NextAttempt(attempt, error) == ToString(attempt + 1) \o " " \o error

\* onRetry(attempt, error): the arguments of the notification.
onRetryArgs(attempt, error) == ToString(attempt) \o " " \o error

\* Faulty variant of retryExhausted: the loop gives up one attempt early.
retryExhausted_OneEarly(attempt, maxAttempts) == attempt >= maxAttempts - 1

\* if (attempt === maxAttempts) break;
retryExhausted(attempt, maxAttempts) == attempt = maxAttempts

\* The loop test of retry and, when it holds, `await fn()` with the catch
\* block up to `await delay(delayMs)`; when it fails, `throw lastError`.
RetryAttempt ==
    /\ pc = "retry"
    /\ IF rt.attempt <= rt.maxAttempts
       THEN \E out \in FnOutcomes :
              LET tr == Append(trace, Ev("op", "fn", out, out \in FnValues))
              IN  IF out \in FnValues
                  THEN /\ pc' = "retry_returned"
                       /\ rt' = [rt EXCEPT !.returned = out]
                       /\ trace' = tr
                  ELSE IF retryExhausted(rt.attempt, rt.maxAttempts)
                  THEN /\ pc' = "retry_threw"
                       /\ rt' = [rt EXCEPT !.lastError = out, !.thrown = out]
                       /\ trace' = tr
                  ELSE /\ pc' = "retry_delay"
                       /\ rt' = [rt EXCEPT !.lastError = out,
                                           !.delayMs = retryDelay(rt.attempt,
                                               rt.initialDelayMs, rt.maxDelayMs)]
                       /\ trace' = IF rt.onRetry
                                   THEN Append(tr, Ev("log", "onRetry",
                                                      onRetryArgs(rt.attempt, out), TRUE))
                                   ELSE tr
       ELSE /\ pc' = "retry_threw"
            /\ rt' = [rt EXCEPT !.thrown = rt.lastError]
            /\ trace' = trace
    /\ UNCHANGED <<runs, poll, entry, dep, domain, cfg, state, result, zone, batch, verif, rb, ext>>

\* `await delay(delayMs)` has elapsed: attempt++ and back to the loop test.
RetryDelay ==
    /\ pc = "retry_delay"
    /\ trace' = Append(trace, Ev("timer", "delay", ToString(rt.delayMs), TRUE))
    /\ rt' = [rt EXCEPT !.attempt = @ + 1]
    /\ pc' = "retry"
    /\ UNCHANGED <<runs, poll, entry, dep, domain, cfg, state, result, zone, batch, verif, rb, ext>>

----------------------------------------------------------------------------
(* The polling loops on their own: waitForDomainVerification (vercel.ts), *)
(* waitForZoneActivation (cloudflare.ts), waitForDeployment (deploy.ts).  *)

PollLoops == {"verification", "zone", "deployment"}

ZoneIntervalMs == 30000
DeployIntervalMs == 5000

\* The locals of a call of a polling loop: the loops of vercel.ts and
\* cloudflare.ts count attempt from 1, the loop of deploy.ts counts i from 0.
PollCall(l, m) ==
    [loop |-> l, attempt |-> IF l = "deployment" THEN 0 ELSE 1,
     maxAttempts |-> m, ret |-> "none"]

PollReturn(p, v) == [p EXCEPT !.ret = v]

ZoneStatusHttp == {"active", "pending", "initializing", "failed", "netError"}

\* getZoneStatus(zoneId): the status of the zone, or null.
getZoneStatus(http) ==
    IF http \in {"failed", "netError"} THEN "null" ELSE http

\* One pass of the loop of waitForDomainVerification up to its next
\* suspension: the loop test, `await verifyDomain(domain)`, and the return
\* or the test for `await delay(intervalMs)`.
WaitForDomainVerificationCheck ==
    /\ pc = "wait_verification"
    /\ IF poll.attempt <= poll.maxAttempts
       THEN \E http \in VerifyHttp :
              LET r == verifyDomain(http)
              IN  /\ trace' = Append(trace, Ev("hosting", "verifyDomain", http, r.verified))
                  /\ IF r.verified
                     THEN pc' = "wait_done" /\ poll' = PollReturn(poll, "true")
                     ELSE IF poll.attempt < poll.maxAttempts
                     THEN pc' = "wait_verification_delay" /\ poll' = poll
                     ELSE pc' = "wait_done" /\ poll' = PollReturn(poll, "false")
       ELSE /\ pc' = "wait_done"
            /\ poll' = PollReturn(poll, "false")
            /\ trace' = trace
    /\ UNCHANGED <<runs, entry, dep, domain, cfg, state, result, zone, rt, batch, verif, rb, ext>>

\* `await delay(intervalMs)` of waitForDomainVerification has elapsed.
WaitForDomainVerificationDelay ==
    /\ pc = "wait_verification_delay"
    /\ trace' = Append(trace, Ev("timer", "delay", ToString(VerifyIntervalMs), TRUE))
    /\ poll' = [poll EXCEPT !.attempt = @ + 1]
    /\ pc' = "wait_verification"
    /\ UNCHANGED <<runs, entry, dep, domain, cfg, state, result, zone, rt, batch, verif, rb, ext>>

\* One pass of the loop of waitForZoneActivation up to its next suspension.
WaitForZoneActivationCheck ==
    /\ pc = "wait_zone"
    /\ IF poll.attempt <= poll.maxAttempts
       THEN \E http \in ZoneStatusHttp :
              LET status == getZoneStatus(http)
              IN  /\ trace' = Append(trace, Ev("dns", "getZoneStatus", status,
                                               status = "active"))
                  /\ IF status = "active"
                     THEN pc' = "wait_done" /\ poll' = PollReturn(poll, "true")
                     ELSE IF poll.attempt < poll.maxAttempts
                     THEN pc' = "wait_zone_delay" /\ poll' = poll
                     ELSE pc' = "wait_done" /\ poll' = PollReturn(poll, "false")
       ELSE /\ pc' = "wait_done"
            /\ poll' = PollReturn(poll, "false")
            /\ trace' = trace
    /\ UNCHANGED <<runs, entry, dep, domain, cfg, state, result, zone, rt, batch, verif, rb, ext>>

\* `await delay(intervalMs)` of waitForZoneActivation has elapsed.
WaitForZoneActivationDelay ==
    /\ pc = "wait_zone_delay"
    /\ trace' = Append(trace, Ev("timer", "delay", ToString(ZoneIntervalMs), TRUE))
    /\ poll' = [poll EXCEPT !.attempt = @ + 1]
    /\ pc' = "wait_zone"
    /\ UNCHANGED <<runs, entry, dep, domain, cfg, state, result, zone, rt, batch, verif, rb, ext>>

\* readyState of the deployment, or the request failed.
DeploymentHttp == {"READY", "ERROR", "CANCELED", "BUILDING", "QUEUED", "netError"}

\* Faulty variant of deploymentFailed: a failed request ends the wait as well.
deploymentFailed_OnRequestError(readyState) ==
    readyState \in {"ERROR", "CANCELED", "netError"}

\* Faulty variant of deploymentFailed: a canceled deployment counts as pending.
deploymentFailed_ErrorOnly(readyState) == readyState = "ERROR"

\* state === 'ERROR' || state === 'CANCELED'
deploymentFailed(readyState) == readyState \in {"ERROR", "CANCELED"}

\* The loop test of waitForDeployment and the timer that opens each pass,
\* once it has elapsed; when the test fails, the timed-out return.
WaitForDeploymentDelay ==
    /\ pc = "wait_deployment"
    /\ IF poll.attempt < poll.maxAttempts
       THEN /\ trace' = Append(trace, Ev("timer", "delay", ToString(DeployIntervalMs), TRUE))
            /\ pc' = "wait_deployment_check"
            /\ poll' = poll
       ELSE /\ pc' = "wait_done"
            /\ poll' = PollReturn(poll, "false")
            /\ trace' = trace
    /\ UNCHANGED <<runs, entry, dep, domain, cfg, state, result, zone, rt, batch, verif, rb, ext>>

\* The GET of the deployment has returned or failed: the rest of the pass,
\* i++ and the loop test.
WaitForDeploymentCheck ==
    /\ pc = "wait_deployment_check"
    /\ \E http \in DeploymentHttp :
         /\ trace' = Append(trace, Ev("deploy", "getDeployment", http, http = "READY"))
         /\ IF http = "READY"
            THEN pc' = "wait_done" /\ poll' = PollReturn(poll, "true")
            ELSE IF deploymentFailed(http)
            THEN pc' = "wait_done" /\ poll' = PollReturn(poll, "false")
            ELSE IF poll.attempt + 1 < poll.maxAttempts
            THEN pc' = "wait_deployment" /\ poll' = [poll EXCEPT !.attempt = @ + 1]
            ELSE pc' = "wait_done" /\ poll' = PollReturn(poll, "false")
    /\ UNCHANGED <<runs, entry, dep, domain, cfg, state, result, zone, rt, batch, verif, rb, ext>>

----------------------------------------------------------------------------
(* cloudflare.ts: createZone called for the same domain again and again *)

\* One call of createZone(domain) outside a run, from the POST to the
\* return; the run of step 3 may follow any number of such calls.
CreateZoneCall ==
    /\ pc = "zone_call"
    /\ Len(SelectSeq(trace, LAMBDA e : e.api = "return")) < MaxZoneCalls
    /\ \E post \in ZonePostHttp(ext.zone) : \E fetch \in ZoneFetchHttp(post) :
         LET r   == createZone(post, fetch, ext.zone)
             tr1 == Append(trace, Ev("dns", "createZone", post, post = "created"))
             tr  == IF post = "conflict"
                    THEN Append(tr1, Ev("dns", "fetchExistingZone", fetch, fetch = "found"))
                    ELSE tr1
         IN  /\ ext' = IF post = "created"
                       THEN [ext EXCEPT !.zone = NewZoneId, !.zoneCreated = TRUE]
                       ELSE ext
             /\ trace' = Append(tr, Ev("return", IF r.success THEN "success" ELSE "failure",
                                       r.zoneId, r.alreadyExists))
    /\ \E next \in {"zone_call", "step3"} : pc' = next
    /\ UNCHANGED <<runs, poll, entry, dep, domain, cfg, state, result, zone, rt, batch, verif, rb>>

----------------------------------------------------------------------------
(* index.ts: two runs for different domains started in the same process. *)
(* Only what the runs share is followed step by step: the projectId of  *)
(* the config object, written by setVercelProjectId and read by every    *)
(* call of the hosting platform adapter when it builds its URL.          *)

RunIds == {1, 2}

\* VERCEL_PROJECT_ID of the environment, and the project each deploy creates.
EnvProject == "P0"
DeployedProject(r) == "P" \o ToString(r)

RunDeployOutcomes == {"failed", "deployed", "deployedNoId"}

\* A call of the hosting platform by run r: the URL names the project the
\* config object holds when the call is made.
HostingCall(r, op) == [run |-> r, op |-> op, project |-> runs.projectId]

\* deployZipToVercel of run r has returned: the failure result, or
\* setVercelProjectId and the call of runWorkflow.
RunDeployed ==
    \E r \in RunIds :
       /\ runs.pc[r] = "deploy"
       /\ \E out \in RunDeployOutcomes :
            runs' = IF out = "failed"
                    THEN [runs EXCEPT !.pc[r] = "done"]
                    ELSE IF out = "deployed"
                    THEN [runs EXCEPT !.pc[r] = "steps1to5",
                                      !.projectId = DeployedProject(r),
                                      !.sel[r] = DeployedProject(r)]
                    ELSE [runs EXCEPT !.pc[r] = "steps1to5",
                                      !.sel[r] = runs.projectId]
       /\ UNCHANGED <<pc, entry, dep, domain, cfg, state, result, zone, rt, batch, verif, rb,
                      poll, ext, trace>>

\* Steps 1 to 5 of run r, which call the registrar and the DNS provider
\* only: they end the run or reach step 6.
RunSteps1To5 ==
    \E r \in RunIds :
       /\ runs.pc[r] = "steps1to5"
       /\ \E ok \in BOOLEAN :
            runs' = [runs EXCEPT !.pc[r] = IF ok THEN "step6" ELSE "done"]
       /\ UNCHANGED <<pc, entry, dep, domain, cfg, state, result, zone, rt, batch, verif, rb,
                      poll, ext, trace>>

\* addDomain of run r: the POST is sent to the project of the config object.
RunAddDomain ==
    \E r \in RunIds :
       /\ runs.pc[r] = "step6"
       /\ \E ok \in BOOLEAN :
            runs' = [runs EXCEPT !.pc[r] = IF ok THEN "step7" ELSE "done",
                                 !.calls = Append(@, HostingCall(r, "addDomain"))]
       /\ UNCHANGED <<pc, entry, dep, domain, cfg, state, result, zone, rt, batch, verif, rb,
                      poll, ext, trace>>

\* One verifyDomain of the verification wait of run r.
RunVerify ==
    \E r \in RunIds :
       /\ runs.pc[r] = "step7"
       /\ \E verified \in BOOLEAN :
            runs' = [runs EXCEPT
                       !.pc[r] = IF verified \/ runs.checks[r] + 1 >= MaxRunChecks
                                 THEN "done" ELSE "step7",
                       !.checks[r] = @ + 1,
                       !.calls = Append(@, HostingCall(r, "verifyDomain"))]
       /\ UNCHANGED <<pc, entry, dep, domain, cfg, state, result, zone, rt, batch, verif, rb,
                      poll, ext, trace>>

----------------------------------------------------------------------------
(* deploy.ts: deployZipToVercel, and index.ts: runWorkflowWithDeploy *)

\* The content of the ZIP of call c, and so of a directory extracted from it.
ZipFiles(c) == "files" \o ToString(c)

\* The url POST /deployments answers with, and the url of the deployment
\* once it is READY.
DeployUrl(c) == "url" \o ToString(c)
FinalUrl(c) == "final" \o ToString(c)

NoDeployResult ==
    [success |-> FALSE, vercelProjectId |-> Undefined, deploymentUrl |-> Undefined,
     errorMessage |-> Undefined]

DeployFailure(msg) == [NoDeployResult EXCEPT !.errorMessage = msg]

\* A call of deployZipToVercel before its first statement; zip tells whether
\* the ZIP file exists.  github and vercel are what createGitHubRepo and the
\* file-based deployToVercel found in the extracted directory.
DeployCall(zip) ==
    [pc |-> "start", zip |-> zip, github |-> Undefined, vercel |-> Undefined,
     result |-> NoDeployResult]

\* path.join(path.dirname(zipPath), 'extracted') is one directory for all
\* ZIP files of a directory: dep.dir is what it holds, "none" when absent.
SetCall(c, call, dir) ==
    dep' = [dir |-> dir, calls |-> [dep.calls EXCEPT ![c] = call]]

\* `return r` inside the try block: the finally block removes the extracted
\* directory if one exists, whoever extracted it.
DeployReturns(c, r) ==
    SetCall(c, [dep.calls[c] EXCEPT !.pc = "returned", !.result = r], "none")

\* The three checks of deployZipToVercel and extractZip, up to the first
\* suspension of createGitHubRepo.
DeployZipStart(c) ==
    /\ c \in DOMAIN dep.calls
    /\ dep.calls[c].pc = "start"
    /\ IF ~dep.calls[c].zip
       THEN /\ SetCall(c, [dep.calls[c] EXCEPT !.pc = "returned",
                              !.result = DeployFailure("ZIP file not found")], dep.dir)
            /\ trace' = trace
       ELSE IF "github.token" \notin cfg
       THEN /\ SetCall(c, [dep.calls[c] EXCEPT !.pc = "returned",
                              !.result = DeployFailure("GITHUB_TOKEN must be set in .env")],
                       dep.dir)
            /\ trace' = trace
       ELSE IF "vercel.token" \notin cfg
       THEN /\ SetCall(c, [dep.calls[c] EXCEPT !.pc = "returned",
                              !.result = DeployFailure("VERCEL_TOKEN must be set in .env")],
                       dep.dir)
            /\ trace' = trace
       ELSE \E extracted \in BOOLEAN :
              /\ trace' = Append(trace, Ev("deploy", "extractZip", ToString(c), extracted))
              /\ IF extracted
                 THEN SetCall(c, [dep.calls[c] EXCEPT !.pc = "github_repo"], ZipFiles(c))
                 ELSE SetCall(c, [dep.calls[c] EXCEPT !.pc = "threw"], "none")
    /\ UNCHANGED <<pc, entry, domain, cfg, state, result, zone, rt, batch, verif, rb, poll,
                   runs, ext>>

GitHubHttp == {"ok", "error"}

\* createGitHubRepo: GET /user and POST /user/repos.
GitHubCreateRepo(c) ==
    /\ c \in DOMAIN dep.calls
    /\ dep.calls[c].pc = "github_repo"
    /\ \E http \in GitHubHttp :
         /\ trace' = Append(trace, Ev("deploy", "createRepo", ToString(c), http = "ok"))
         /\ IF http = "ok"
            THEN SetCall(c, [dep.calls[c] EXCEPT !.pc = "github_upload"], dep.dir)
            ELSE DeployReturns(c, DeployFailure("github error"))
    /\ UNCHANGED <<pc, entry, domain, cfg, state, result, zone, rt, batch, verif, rb, poll,
                   runs, ext>>

\* createGitHubRepo: glob over the extracted directory, then readFileSync
\* and PUT for each file.  A missing directory gives no file or a failed
\* read; every error is caught and returned.
GitHubUpload(c) ==
    /\ c \in DOMAIN dep.calls
    /\ dep.calls[c].pc = "github_upload"
    /\ \E http \in GitHubHttp :
         /\ trace' = Append(trace, Ev("deploy", "uploadFiles", dep.dir, http = "ok"))
         /\ IF http = "ok"
            THEN SetCall(c, [dep.calls[c] EXCEPT !.pc = "vercel", !.github = dep.dir],
                         dep.dir)
            ELSE DeployReturns(c, DeployFailure("github error"))
    /\ UNCHANGED <<pc, entry, domain, cfg, state, result, zone, rt, batch, verif, rb, poll,
                   runs, ext>>

\* What deployToVercel comes to: the GitHub-linked deployment with a project
\* id, without one, or without a url; the file-based deployment after the
\* linked one failed; or an error.
DeployToVercelOutcomes == {"linked", "linkedNoId", "linkedNoUrl", "files", "error"}

deployToVercel(c, out) ==
    IF out = "error" THEN DeployFailure("vercel error")
    ELSE [success |-> TRUE,
          vercelProjectId |-> IF out = "linkedNoId" THEN Undefined
                              ELSE DeployedProject(c),
          deploymentUrl |-> IF out = "linkedNoUrl" THEN Undefined ELSE DeployUrl(c),
          errorMessage |-> Undefined]

\* Faulty variant of deployAfterWait: a deployment that did not become ready
\* is returned as a failure.
deployAfterWait_FailingUnready(r, ready, finalUrl) ==
    IF ready THEN [r EXCEPT !.deploymentUrl = finalUrl]
    ELSE [r EXCEPT !.success = FALSE, !.errorMessage = "deployment not ready"]

\* if (ready) { vercelResult.deploymentUrl = finalUrl; }  return vercelResult;
deployAfterWait(r, ready, finalUrl) ==
    IF ready THEN [r EXCEPT !.deploymentUrl = finalUrl] ELSE r

\* deployToVercel, and the test for the wait that follows it.
DeployToVercel(c) ==
    /\ c \in DOMAIN dep.calls
    /\ dep.calls[c].pc = "vercel"
    /\ \E out \in DeployToVercelOutcomes :
         LET r == deployToVercel(c, out)
             seen == IF out = "files" THEN dep.dir ELSE Undefined
         IN  /\ trace' = Append(trace, Ev("deploy", "deployToVercel", ToString(c), r.success))
             /\ IF r.success /\ r.deploymentUrl # Undefined
                THEN SetCall(c, [dep.calls[c] EXCEPT !.pc = "waiting", !.result = r,
                                    !.vercel = seen], dep.dir)
                ELSE DeployReturns(c, r)
    /\ UNCHANGED <<pc, entry, domain, cfg, state, result, zone, rt, batch, verif, rb, poll,
                   runs, ext>>

\* The call of waitForDeployment(vercelResult.deploymentUrl); its budget of
\* 60 passes stands as any budget up to MaxPollAttempts.
DeployWaitStart(c) ==
    /\ pc = "deploying"
    /\ c \in DOMAIN dep.calls
    /\ dep.calls[c].pc = "waiting"
    /\ \E m \in 1..MaxPollAttempts : poll' = PollCall("deployment", m)
    /\ pc' = "wait_deployment"
    /\ SetCall(c, [dep.calls[c] EXCEPT !.pc = "polling"], dep.dir)
    /\ UNCHANGED <<entry, domain, cfg, state, result, zone, rt, batch, verif, rb, runs, ext,
                   trace>>

\* waitForDeployment has returned: the rest of deployZipToVercel.
DeployWaitEnd(c) ==
    /\ pc = "wait_done"
    /\ c \in DOMAIN dep.calls
    /\ dep.calls[c].pc = "polling"
    /\ \E finalUrl \in {FinalUrl(c), dep.calls[c].result.deploymentUrl} :
          DeployReturns(c, deployAfterWait(dep.calls[c].result, poll.ret = "true", finalUrl))
    /\ pc' = "deploying"
    /\ UNCHANGED <<entry, domain, cfg, state, result, zone, rt, batch, verif, rb, poll, runs,
                   ext, trace>>

\* waitForDeployment as a whole, where calls run side by side: it touches
\* no file and returns ready or not.
DeployWaitWhole(c) ==
    /\ pc = "two_deploys"
    /\ c \in DOMAIN dep.calls
    /\ dep.calls[c].pc = "waiting"
    /\ \E ready \in BOOLEAN :
       \E finalUrl \in {FinalUrl(c), dep.calls[c].result.deploymentUrl} :
          /\ DeployReturns(c, deployAfterWait(dep.calls[c].result, ready, finalUrl))
          /\ trace' = Append(trace, Ev("deploy", "waitForDeployment", ToString(c), ready))
    /\ UNCHANGED <<pc, entry, domain, cfg, state, result, zone, rt, batch, verif, rb, poll,
                   runs, ext>>

\* runWorkflowWithDeploy up to the call of deployZipToVercel.
RunWithDeployStart ==
    /\ pc = "deploy"
    /\ dep.calls = <<>>
    /\ IF ~validateConfig("deploy", cfg)
       THEN pc' = "rejected" /\ dep' = dep
       ELSE /\ pc' = "deploying"
            /\ \E zip \in BOOLEAN : dep' = [dep EXCEPT !.calls = <<DeployCall(zip)>>]
    /\ UNCHANGED <<entry, domain, cfg, state, result, zone, rt, batch, verif, rb, poll, runs,
                   ext, trace>>

\* The result runWorkflowWithDeploy returns for a failed deployment.
DeployFailedResult(r) ==
    [InitialResult EXCEPT !.errors = <<"Deploy: " \o r.errorMessage>>]

\* Faulty variant of DeployAborts: the saga is started after any deployment.
DeployAborts_Never(r) == FALSE

\* if (!deployResult.success) { return {...} }
DeployAborts(r) == ~r.success

\* deployZipToVercel has returned or thrown: the failure result, or
\* setVercelProjectId and the call of runWorkflow up to its first step.
RunWithDeployReturn ==
    /\ pc = "deploying"
    /\ dep.calls[1].pc \in {"returned", "threw"}
    /\ LET r == dep.calls[1].result
       IN  IF dep.calls[1].pc = "threw"
           THEN pc' = "rejected" /\ UNCHANGED <<cfg, result, runs>>
           ELSE IF DeployAborts(r)
           THEN /\ pc' = "done"
                /\ result' = DeployFailedResult(r)
                /\ UNCHANGED <<cfg, runs>>
           ELSE /\ pc' = "step1"
                /\ cfg' = IF r.vercelProjectId # Undefined
                          THEN cfg \cup {"vercel.projectId"} ELSE cfg
                /\ runs' = IF r.vercelProjectId # Undefined
                           THEN [runs EXCEPT !.projectId = r.vercelProjectId] ELSE runs
                /\ result' = result
    /\ UNCHANGED <<entry, dep, domain, state, zone, rt, batch, verif, rb, poll, ext, trace>>

----------------------------------------------------------------------------
(* Specifications *)

Next ==
    \/ Deploy
    \/ Step1Availability
    \/ Step2Purchase
    \/ Step3Zone
    \/ Step4Nameservers
    \/ CreateDNSRecordsIssue
    \/ CreateDNSRecordsStep
    \/ Step6AddDomain
    \/ Step6TxtRecord
    \/ Step7Verify
    \/ RollbackRemoveDomain
    \/ RollbackDeleteRecord
    \/ RollbackFinish

Spec == Init /\ [][Next]_vars

\* Every provider call and every delay returns: a run that can take a step
\* takes one.
SpecFair == Spec /\ WF_vars(Next)

(* createDNSRecords on its own: every batch of up to MaxBatch records. *)

BatchRecords ==
    { [type |-> "A", name |-> "example.com"], [type |-> "CNAME", name |-> "www"],
      [type |-> "TXT", name |-> "_vercel"] }

InitBatch ==
    /\ entry = "run"
    /\ domain = <<"example", "com">>
    /\ cfg = ConfigFields
    /\ state = InitialState
    /\ result = InitialResult
    /\ zone = [id |-> NewZoneId, nameServers |-> ZoneNameservers]
    /\ rt = NoRetry
    /\ \E n \in 0..MaxBatch : \E recs \in [1..n -> BatchRecords] :
          /\ batch = [records |-> recs, idx |-> 1, inFlight |-> {}, recordIds |-> <<>>,
                      errors |-> <<>>, ret |-> "caller"]
          /\ pc = IF n = 0 THEN "batch_done" ELSE "batch"
    /\ verif = NoVerif
    /\ rb = NoRollback
    /\ poll = NoPoll
    /\ runs = NoRuns
    /\ ext = [InitialExt EXCEPT !.zone = NewZoneId, !.zoneCreated = TRUE]
    /\ dep = NoDep
    /\ trace = <<>>

NextBatch == CreateDNSRecordsIssue \/ CreateDNSRecordsStep

SpecBatch == InitBatch /\ [][NextBatch]_vars

(* rollback on its own: every WorkflowState with up to MaxRollbackIds *)
(* record ids, called from the try block or from the catch block.     *)

RollbackIdLists ==
    { ids \in UNION { [1..n -> { RecordId(i) : i \in 1..MaxRollbackIds }]
                        : n \in 0..MaxRollbackIds } :
        \A i, j \in 1..Len(ids) : i # j => ids[i] # ids[j] }

RollbackEntryErrors == <<"Unexpected: fault">>

InitRollback ==
    /\ entry = "run"
    /\ domain = <<"example", "com">>
    /\ cfg = ConfigFields
    /\ \E p \in BOOLEAN, z \in {Undefined, OldZoneId, NewZoneId},
          ids \in RollbackIdLists, h \in BOOLEAN :
          /\ state = [domainPurchased |-> p, cloudflareZoneId |-> z,
                      cloudflareRecordIds |-> ids, vercelDomainAdded |-> h]
          /\ ext = [InitialExt EXCEPT !.zone = z, !.hostingPresent = h,
                                      !.purchased = p, !.records = SeqToSet(ids),
                                      !.hostingAdded = h,
                                      !.nextId = MaxRollbackIds + 1]
    /\ result = [InitialResult EXCEPT !.errors = RollbackEntryErrors]
    /\ zone = NoZone
    /\ rt = NoRetry
    /\ batch = NoBatch
    /\ verif = NoVerif
    /\ rb \in { [from |-> f, idx |-> 1] : f \in {"try", "catch"} }
    /\ poll = NoPoll
    /\ runs = NoRuns
    /\ pc = "rb_hosting"
    /\ dep = NoDep
    /\ trace = <<RollbackMark>>

NextRollback ==
    \/ RollbackRemoveDomain
    \/ RollbackDeleteRecord
    \/ RollbackFinish

SpecRollback == InitRollback /\ [][NextRollback]_vars

(* retry on its own: every call with up to MaxRetryAttempts attempts *)
(* (and with maxAttempts 0 and -1), on a function that may fail each time. *)

InitRetry ==
    /\ entry = "run"
    /\ domain = <<"example", "com">>
    /\ cfg = ConfigFields
    /\ state = InitialState
    /\ result = InitialResult
    /\ zone = NoZone
    /\ rt \in { RetryCall(m, d0, dm, h) :
                  m \in (-1)..MaxRetryAttempts, d0 \in RetryInitialDelays,
                  dm \in RetryMaxDelays, h \in BOOLEAN }
    /\ batch = NoBatch
    /\ verif = NoVerif
    /\ rb = NoRollback
    /\ poll = NoPoll
    /\ runs = NoRuns
    /\ ext = InitialExt
    /\ pc = "retry"
    /\ dep = NoDep
    /\ trace = <<>>

NextRetry ==
    \/ RetryAttempt
    \/ RetryDelay

SpecRetry == InitRetry /\ [][NextRetry]_vars

(* The polling loops on their own: every loop with maxAttempts from 0 *)
(* to MaxPollAttempts.                                                 *)

InitPoll ==
    /\ entry = "run"
    /\ domain = <<"example", "com">>
    /\ cfg = ConfigFields
    /\ state = InitialState
    /\ result = InitialResult
    /\ zone = NoZone
    /\ rt = NoRetry
    /\ batch = NoBatch
    /\ verif = NoVerif
    /\ rb = NoRollback
    /\ poll \in { PollCall(l, m) : l \in PollLoops, m \in 0..MaxPollAttempts }
    /\ runs = NoRuns
    /\ ext = InitialExt
    /\ pc = "wait_" \o poll.loop
    /\ dep = NoDep
    /\ trace = <<>>

NextPoll ==
    \/ WaitForDomainVerificationCheck
    \/ WaitForDomainVerificationDelay
    \/ WaitForZoneActivationCheck
    \/ WaitForZoneActivationDelay
    \/ WaitForDeploymentDelay
    \/ WaitForDeploymentCheck

SpecPoll == InitPoll /\ [][NextPoll]_vars

(* createZone called up to MaxZoneCalls times for the domain, with or *)
(* without a zone at the provider beforehand, then step 3 of a run.    *)

InitZone ==
    /\ entry = "run"
    /\ domain = <<"example", "com">>
    /\ cfg = ConfigFields
    /\ state = [InitialState EXCEPT !.domainPurchased = TRUE]
    /\ result = [InitialResult EXCEPT !.steps.availabilityCheck = TRUE,
                                      !.steps.domainPurchase = TRUE]
    /\ zone = NoZone
    /\ rt = NoRetry
    /\ batch = NoBatch
    /\ verif = NoVerif
    /\ rb = NoRollback
    /\ poll = NoPoll
    /\ runs = NoRuns
    /\ \E z \in {Undefined, OldZoneId} :
          ext = [InitialExt EXCEPT !.zone = z, !.purchased = TRUE]
    /\ pc \in {"zone_call", "step3"}
    /\ dep = NoDep
    /\ trace = <<>>

NextZone ==
    \/ CreateZoneCall
    \/ Step3Zone

SpecZone == InitZone /\ [][NextZone]_vars

(* Two runs in one process, each started by `run` or by *)
(* `deploy-with-domain`, under every interleaving.       *)

RunEntries == {"run", "deploy-with-domain"}

InitTwoRuns ==
    /\ entry = "run"
    /\ domain = <<"example", "com">>
    /\ cfg = ConfigFields
    /\ state = InitialState
    /\ result = InitialResult
    /\ zone = NoZone
    /\ rt = NoRetry
    /\ batch = NoBatch
    /\ verif = NoVerif
    /\ rb = NoRollback
    /\ poll = NoPoll
    /\ \E e \in [RunIds -> RunEntries] :
          runs = [projectId |-> EnvProject,
                  pc     |-> [r \in RunIds |-> IF e[r] = "run" THEN "steps1to5" ELSE "deploy"],
                  sel    |-> [r \in RunIds |-> IF e[r] = "run" THEN EnvProject ELSE Undefined],
                  checks |-> [r \in RunIds |-> 0],
                  calls  |-> <<>>]
    /\ ext = InitialExt
    /\ pc = "two_runs"
    /\ dep = NoDep
    /\ trace = <<>>

NextTwoRuns ==
    \/ RunDeployed
    \/ RunSteps1To5
    \/ RunAddDomain
    \/ RunVerify

SpecTwoRuns == InitTwoRuns /\ [][NextTwoRuns]_vars

(* runWorkflowWithDeploy up to the first step of the saga. *)

InitDeploy ==
    /\ entry = "deploy-with-domain"
    /\ pc = "deploy"
    /\ domain = <<"example", "com">>
    /\ cfg \in { ConfigFields, ConfigFields \ {"vercel.projectId"},
                 ConfigFields \ {"github.token"} }
    /\ state = InitialState
    /\ result = InitialResult
    /\ zone = NoZone
    /\ rt = NoRetry
    /\ batch = NoBatch
    /\ verif = NoVerif
    /\ rb = NoRollback
    /\ poll = NoPoll
    /\ runs = [NoRuns EXCEPT !.projectId = IF "vercel.projectId" \in cfg
                                           THEN EnvProject ELSE Undefined]
    /\ ext = InitialExt
    /\ dep = NoDep
    /\ trace = <<>>

NextDeploy ==
    \/ RunWithDeployStart
    \/ DeployZipStart(1)
    \/ GitHubCreateRepo(1)
    \/ GitHubUpload(1)
    \/ DeployToVercel(1)
    \/ DeployWaitStart(1)
    \/ WaitForDeploymentDelay
    \/ WaitForDeploymentCheck
    \/ DeployWaitEnd(1)
    \/ RunWithDeployReturn
    \/ Step1Availability

SpecDeploy == InitDeploy /\ [][NextDeploy]_vars

(* Two calls of deployZipToVercel for ZIP files of one directory, side by *)
(* side (two processes, or two calls in one).                             *)

DeployCallIds == {1, 2}

InitTwoDeploys ==
    /\ entry = "deploy"
    /\ pc = "two_deploys"
    /\ domain = <<"example", "com">>
    /\ cfg = ConfigFields
    /\ state = InitialState
    /\ result = InitialResult
    /\ zone = NoZone
    /\ rt = NoRetry
    /\ batch = NoBatch
    /\ verif = NoVerif
    /\ rb = NoRollback
    /\ poll = NoPoll
    /\ runs = NoRuns
    /\ ext = InitialExt
    /\ dep = [dir |-> "none", calls |-> [c \in DeployCallIds |-> DeployCall(TRUE)]]
    /\ trace = <<>>

NextTwoDeploys ==
    \E c \in DeployCallIds :
        \/ DeployZipStart(c)
        \/ GitHubCreateRepo(c)
        \/ GitHubUpload(c)
        \/ DeployToVercel(c)
        \/ DeployWaitWhole(c)

SpecTwoDeploys == InitTwoDeploys /\ [][NextTwoDeploys]_vars

----------------------------------------------------------------------------
(* Properties *)

Events(api, op) == SelectSeq(trace, LAMBDA e : e.api = api /\ e.op = op)

Called(api, op) == \E i \in 1..Len(trace) : trace[i].api = api /\ trace[i].op = op

RolledBack == \E i \in 1..Len(trace) : trace[i] = RollbackMark

InRollback == pc \in {"rb_hosting", "rb_records"}

\* C1: the result a run returns has success = TRUE exactly when all seven
\* step flags are TRUE, and then its error list is empty.
C1_SuccessIffAllSteps ==
    pc = "done" =>
        /\ result.success <=> (\A n \in StepNames : result.steps[n])
        /\ result.success => result.errors = <<>>

C1_Witness ==
    /\ pc = "done"
    /\ result.success
    /\ \A n \in StepNames : result.steps[n]

\* C2: a returned result with a false step flag carries at least one error,
\* whichever exit the run took.
C2_FalseFlagHasError ==
    pc = "done" =>
        ((\E n \in StepNames : ~result.steps[n]) => Len(result.errors) >= 1)

C2_Witness ==
    /\ pc = "done"
    /\ result.steps["vercelDomain"]
    /\ ~result.steps["vercelVerified"]
    /\ ~result.steps["dnsRecords"]
    /\ Len(result.errors) >= 2

FirstRollback ==
    IF RolledBack
    THEN CHOOSE i \in 1..Len(trace) :
           trace[i] = RollbackMark /\ \A j \in 1..(i-1) : trace[j] # RollbackMark
    ELSE 0

Warned == \E i \in 1..Len(trace) : trace[i] = ManualWarning

RegistrarOps == {"checkAvailability", "purchaseDomain", "setNameservers"}

\* C3: the purchase is never reversed: every registrar call is a check, a
\* purchase or a nameserver delegation, rollback makes no registrar call,
\* and rollback emits the manual-action warning exactly when domainPurchased.
C3_PurchaseNeverReversed ==
    /\ \A i \in 1..Len(trace) :
         trace[i].api = "registrar" =>
            /\ trace[i].op \in RegistrarOps
            /\ ~(RolledBack /\ i > FirstRollback)
    /\ Warned => state.domainPurchased /\ RolledBack
    /\ (pc = "done" /\ RolledBack) => (Warned <=> state.domainPurchased)

C3_Witness ==
    /\ pc = "done"
    /\ RolledBack
    /\ state.domainPurchased
    /\ Warned
    /\ Called("dns", "deleteDNSRecord")

DeleteEvents == Events("dns", "deleteDNSRecord")

Count(e) == Cardinality({ i \in 1..Len(trace) : trace[i] = e })

\* C4: when a run that got past step 5 ends with a rollback, the delete
\* calls of the rollback are one per recorded record id, for exactly those
\* ids, and a rejected deletion neither raises nor adds a second rollback.
C4_RollbackDeletesRecordedIds ==
    (pc = "done" /\ RolledBack /\ result.details.dnsRecordIds # None) =>
        /\ { DeleteEvents[i].arg : i \in 1..Len(DeleteEvents) }
              = SeqToSet(state.cloudflareRecordIds)
        /\ Len(DeleteEvents) = Len(state.cloudflareRecordIds)
        /\ Count(RollbackMark) = 1

C4_Witness ==
    /\ pc = "done"
    /\ RolledBack
    /\ Len(state.cloudflareRecordIds) = 2
    /\ Len(DeleteEvents) = 2
    /\ ~DeleteEvents[1].ok
    /\ DeleteEvents[2].ok

\* C5: (as claimed) in every state each compensation field is set exactly
\* when this run has created the resource it stands for.
C5_FieldsTrackCreatedResources ==
    /\ state.domainPurchased <=> ext.purchased
    /\ (state.cloudflareZoneId # Undefined) <=> ext.zoneCreated
    /\ SeqToSet(state.cloudflareRecordIds) = ext.records
    /\ state.vercelDomainAdded <=> ext.hostingAdded

CreateEvents == Events("dns", "createDNSRecord")

\* The positions of the batch whose creation failed, in request order.
FailedPositions ==
    SelectSeq([i \in 1..Len(CreateEvents) |-> i], LAMBDA i : ~CreateEvents[i].ok)

CreatedIds ==
    LET okEvents == SelectSeq(CreateEvents, LAMBDA e : e.ok)
    IN  [i \in 1..Len(okEvents) |-> okEvents[i].arg]

RecordMessages == {"record rejected", "network error"}

\* C6: createDNSRecords collects the ids of exactly the created records, in
\* request order, reports success exactly when no creation failed, and has
\* one error "<type> <name>: <message>" per failed record, in request order.
C6_BatchResult ==
    /\ Len(CreateEvents) = batch.idx - 1
    /\ batch.recordIds = CreatedIds
    /\ Len(batch.errors) = Len(FailedPositions)
    /\ \A k \in 1..Len(FailedPositions) :
         \E m \in RecordMessages :
            batch.errors[k] = batch.records[FailedPositions[k]].type \o " " \o
                              batch.records[FailedPositions[k]].name \o ": " \o m
    /\ pc = "batch_done" =>
         /\ createDNSRecordsResult(batch).success <=> (FailedPositions = <<>>)
         /\ createDNSRecordsResult(batch).recordIds = CreatedIds
         /\ Len(CreateEvents) = Len(batch.records)

C6_Witness ==
    /\ pc = "batch_done"
    /\ Len(batch.records) = 3
    /\ FailedPositions = <<2>>
    /\ batch.recordIds = <<RecordId(1), RecordId(2)>>
    /\ ~createDNSRecordsResult(batch).success
    /\ batch.errors = <<"CNAME www: record rejected">>

Step5Failed == result.details.dnsRecordIds # None /\ ~result.steps["dnsRecords"]

InErrors(e) == \E j \in 1..Len(result.errors) : result.errors[j] = e

\* C7 (as claimed): after a failed step 5 the run never rolls back or ends
\* without having called addDomain.
C7_AlwaysReachesAddDomain ==
    Step5Failed =>
        /\ pc = "done" => Called("hosting", "addDomain")
        /\ RolledBack => Called("hosting", "addDomain")

\* C7 (amended): a failed step 5 records its errors, leaves dnsRecords false
\* and goes on to step 6; addDomain is then called unless the credential
\* check of step 6 raises, which is the only way the run can roll back
\* without having called addDomain.
C7_FailedBatchGoesOnToStep6 ==
    Step5Failed =>
        /\ Len(batch.errors) >= 1
        /\ \A i \in 1..Len(batch.errors) : InErrors(batch.errors[i])
        /\ \/ pc = "step6"
           \/ Called("hosting", "addDomain")
           \/ /\ ~validateConfig("vercel", cfg)
              /\ RolledBack
              /\ InErrors("Unexpected: " \o validateConfigMessage("vercel"))
        /\ (validateConfig("vercel", cfg) /\ pc # "step6") => Called("hosting", "addDomain")

C7_Witness ==
    /\ Step5Failed
    /\ state.cloudflareRecordIds = <<>>
    /\ Len(batch.errors) = 2
    /\ Called("hosting", "addDomain")
    /\ pc = "step7"

ManualNotice == "Manual action required: the purchased domain cannot be refunded automatically"

ZoneMessages == {"zone rejected", "network error"}

\* C8 (as claimed): a non-conflict failure of zone creation after the
\* purchase ends with one rollback without removal or deletion calls, the
\* warning, and an error list of the zone error followed by the notice.
C8_ZoneFailureResult ==
    ( /\ pc = "done"
      /\ result.steps["domainPurchase"]
      /\ Called("dns", "createZone")
      /\ ~Called("dns", "fetchExistingZone")
      /\ ~result.steps["cloudflareZone"] ) =>
        /\ Count(RollbackMark) = 1
        /\ ~Called("hosting", "removeDomain")
        /\ ~Called("dns", "deleteDNSRecord")
        /\ Warned
        /\ ~result.success
        /\ \E m \in ZoneMessages :
              result.errors = <<"Cloudflare Zone: " \o m, ManualNotice>>

\* The entry of the error list that would report compensation action e.
CompensationEntry(e) ==
    "Rollback: " \o e.op \o " " \o e.arg \o (IF e.ok THEN " done" ELSE " failed")

\* C9 (as claimed): the result of a run that rolled back lists the outcome
\* of every compensation action: each removal, each deletion, the notice.
C9_RollbackOutcomesInErrors ==
    (pc = "done" /\ RolledBack) =>
        /\ \A i \in 1..Len(trace) :
             (i > FirstRollback /\ trace[i].api \in {"hosting", "dns"})
                => InErrors(CompensationEntry(trace[i]))
        /\ Warned => InErrors(ManualNotice)

\* C10: rollback never raises and adds nothing to the result: from the call
\* of rollback to the return of the result the error list is unchanged, no
\* exception leaves rollback and the catch block is not entered from it.
C10_RollbackNeverFails ==
    [][InRollback =>
          /\ pc' \in {"rb_hosting", "rb_records", "done"}
          /\ result' = result
          /\ rb'.from = rb.from]_vars

C10_Witness ==
    /\ pc = "done"
    /\ \E i \in 1..Len(trace) :
          trace[i].op = "removeDomain" /\ ~trace[i].ok
    /\ \E i \in 1..Len(trace) :
          trace[i].op = "deleteDNSRecord" /\ ~trace[i].ok
    /\ result.errors = RollbackEntryErrors

RemoveEvents == Events("hosting", "removeDomain")

\* C11: rollback acts in dependency-reverse order: no hosting removal
\* follows a record deletion, nothing follows the purchase warning, each
\* kind of action happens only under its condition on the state, the removal
\* has returned before the deletions start, and once rollback is over every
\* action whose condition holds has happened, whatever the earlier ones
\* returned.
C11_DependencyReverseOrder ==
    /\ \A i, j \in 1..Len(trace) :
         i < j =>
            /\ ~(trace[i].op = "deleteDNSRecord" /\ trace[j].op = "removeDomain")
            /\ ~(trace[i] = ManualWarning
                   /\ trace[j].op \in {"removeDomain", "deleteDNSRecord"})
    /\ Len(RemoveEvents) = IF state.vercelDomainAdded /\ pc # "rb_hosting" THEN 1 ELSE 0
    /\ Called("dns", "deleteDNSRecord") => RollbackDeletesRecords(state)
    /\ Warned => state.domainPurchased
    /\ ~InRollback =>
         /\ RollbackDeletesRecords(state)
               => Len(DeleteEvents) = Len(state.cloudflareRecordIds)
         /\ state.domainPurchased => Count(ManualWarning) = 1
         /\ trace[Len(trace)] = IF state.domainPurchased THEN ManualWarning
                                ELSE IF RollbackDeletesRecords(state)
                                     THEN DeleteEvents[Len(DeleteEvents)]
                                     ELSE IF state.vercelDomainAdded
                                          THEN RemoveEvents[1]
                                          ELSE RollbackMark

C11_Witness ==
    /\ pc = "done"
    /\ state.vercelDomainAdded
    /\ state.domainPurchased
    /\ Len(state.cloudflareRecordIds) = 2
    /\ Len(trace) = 5
    /\ trace[2].op = "removeDomain" /\ ~trace[2].ok
    /\ trace[3].op = "deleteDNSRecord" /\ ~trace[3].ok
    /\ trace[4].op = "deleteDNSRecord" /\ trace[4].ok
    /\ trace[5] = ManualWarning

\* C12: the deletions of rollback are attempted one by one: the delete calls
\* issued so far are those of the first ids of the recorded list, in order,
\* whatever each call returned, and at the end of rollback every recorded id
\* has had its call.
C12_EveryIdAttempted ==
    /\ \A k \in 1..Len(DeleteEvents) :
         /\ k <= Len(state.cloudflareRecordIds)
         /\ DeleteEvents[k].arg = state.cloudflareRecordIds[k]
    /\ (pc = "rb_records" /\ RollbackDeletesRecords(state))
          => Len(DeleteEvents) = rb.idx - 1
    /\ (~InRollback /\ RollbackDeletesRecords(state)) =>
          \A k \in 1..Len(state.cloudflareRecordIds) :
             \E i \in 1..Len(trace) :
                /\ trace[i].op = "deleteDNSRecord"
                /\ trace[i].arg = state.cloudflareRecordIds[k]

C12_Witness ==
    /\ pc = "done"
    /\ Len(state.cloudflareRecordIds) = 2
    /\ Len(DeleteEvents) = 2
    /\ ~DeleteEvents[1].ok
    /\ ~DeleteEvents[2].ok

VerifyEvents == Events("hosting", "verifyDomain")

FlagsBeforeVerified == StepNames \ {"vercelVerified"}

\* C13: a verification wait that ends unverified does not start rollback:
\* the step leaves the flags of steps 1-6 and the compensation state as they
\* were, vercelVerified stays false, exactly one error, the verification
\* error, is added, the run ends with success false, and no removal or
\* deletion call has been made.
C13_UnverifiedEndsWithoutRollback ==
    [][(pc = "step7" /\ pc' # "step7" /\ ~result'.steps["vercelVerified"]) =>
          /\ pc' = "done"
          /\ rb' = rb
          /\ state' = state
          /\ ext' = ext
          /\ \A n \in FlagsBeforeVerified : result'.steps[n] = result.steps[n]
          /\ ~result.steps["vercelVerified"]
          /\ result'.errors = Append(result.errors, VerificationError)
          /\ ~result'.success
          /\ \A i \in 1..Len(trace') :
                /\ trace'[i] # RollbackMark
                /\ trace'[i].op \notin {"removeDomain", "deleteDNSRecord"}]_vars

C13_Witness ==
    /\ pc = "done"
    /\ Len(VerifyEvents) = VerifyMaxAttempts
    /\ \A i \in 1..Len(VerifyEvents) : ~VerifyEvents[i].ok
    /\ ~result.steps["vercelVerified"]
    /\ result.steps["vercelDomain"]
    /\ result.errors = <<VerificationError>>
    /\ ~result.success

\* The run ended after step 1 was carried out and without a purchase:
\* the domain was reported unavailable, or the purchase failed.
EndedInSteps12 ==
    /\ pc = "done"
    /\ Called("registrar", "checkAvailability")
    /\ ~result.steps["domainPurchase"]

\* C14 (as claimed): a run that ends in step 1 or 2 has recorded exactly one
\* error, has not started rollback, has made no call to the DNS provider or
\* the hosting platform and no nameserver call, and has called the
\* availability check and the purchase at most once each.
C14_EarlyFailureReturnsAtOnce ==
    EndedInSteps12 =>
        /\ Len(result.errors) = 1
        /\ ~RolledBack
        /\ \A i \in 1..Len(trace) :
              /\ trace[i].api \notin {"dns", "hosting"}
              /\ trace[i].op # "setNameservers"
        /\ Len(Events("registrar", "checkAvailability")) = 1
        /\ Len(Events("registrar", "purchaseDomain")) <= 1

NameserverEvents == Events("registrar", "setNameservers")

\* C15 (as claimed): a failed attempt of the nameserver delegation is
\* followed by another attempt until three have been made: the step is
\* recorded as failed and rollback started only after NsMaxAttempts calls.
C15_FailedDelegationIsRetried ==
    (\E i \in 1..Len(NameserverEvents) : ~NameserverEvents[i].ok) =>
        \/ pc = "step4"
        \/ NameserverEvents[Len(NameserverEvents)].ok
        \/ Len(NameserverEvents) = NsMaxAttempts

FnEvents == Events("op", "fn")

DelayEvents == Events("timer", "delay")

\* C16: with maxAttempts >= 1, retry gives up only after fn has been called
\* exactly maxAttempts times, every call having failed, and what it throws
\* is the error of the last call; while every call so far has failed, no
\* more than maxAttempts calls have been made, and retry returns only after
\* a call that succeeded.
C16_AlwaysFailingInvokedMaxAttempts ==
    rt.maxAttempts >= 1 =>
        /\ Len(FnEvents) <= rt.maxAttempts
        /\ pc = "retry_threw" =>
              /\ Len(FnEvents) = rt.maxAttempts
              /\ \A i \in 1..Len(FnEvents) : ~FnEvents[i].ok
              /\ rt.thrown = FnEvents[Len(FnEvents)].arg
        /\ pc = "retry_returned" => FnEvents[Len(FnEvents)].ok
        /\ (pc \in {"retry", "retry_delay"} /\ Len(FnEvents) > 0)
              => Len(FnEvents) < rt.maxAttempts

C16_Witness ==
    /\ pc = "retry_threw"
    /\ rt.maxAttempts = DefaultMaxAttempts
    /\ Len(FnEvents) = 3
    /\ FnEvents[1].arg = "E1"
    /\ FnEvents[2].arg = "E1"
    /\ FnEvents[3].arg = "E2"
    /\ rt.thrown = "E2"

\* The fn and delay events of the trace, in order.
AttemptsAndDelays ==
    SelectSeq(trace, LAMBDA e : e.op \in {"fn", "delay"})

\* C17: the k-th delay of a call of retry follows the k-th failed call of fn
\* and precedes the next call, and lasts
\* min(initialDelayMs * 2^(k-1), maxDelayMs); with 1000 and 30000 the
\* delays are 1000, 2000, 4000; no delay exceeds maxDelayMs; and when retry
\* has thrown or returned the last event is a call of fn, not a delay.
C17_BackoffDelays ==
    /\ \A i \in 1..Len(AttemptsAndDelays) :
         AttemptsAndDelays[i].op = IF i % 2 = 1 THEN "fn" ELSE "delay"
    /\ \A k \in 1..Len(DelayEvents) :
         /\ ~FnEvents[k].ok
         /\ k < rt.maxAttempts
         /\ LET grown == rt.initialDelayMs * 2 ^ (k - 1)
            IN  DelayEvents[k].arg =
                  ToString(IF grown < rt.maxDelayMs THEN grown ELSE rt.maxDelayMs)
         /\ (rt.initialDelayMs = 1000 /\ rt.maxDelayMs = 30000 /\ k <= 3)
               => DelayEvents[k].arg = <<"1000", "2000", "4000">>[k]
    /\ rt.delayMs <= rt.maxDelayMs
    /\ pc = "retry_delay" =>
         /\ Len(DelayEvents) = Len(FnEvents) - 1
         /\ rt.attempt = Len(FnEvents)
         /\ rt.attempt < rt.maxAttempts
    /\ pc \in {"retry", "retry_threw", "retry_returned"} =>
         \/ trace = <<>>
         \/ /\ pc = "retry"
            /\ trace[Len(trace)].op = "delay"
            /\ Len(DelayEvents) = Len(FnEvents)
         \/ /\ pc # "retry"
            /\ trace[Len(trace)].op = "fn"
            /\ Len(DelayEvents) = Len(FnEvents) - 1

C17_Witness ==
    /\ pc = "retry_threw"
    /\ rt.maxAttempts = 4
    /\ rt.initialDelayMs = 1000
    /\ rt.maxDelayMs = 30000
    /\ Len(FnEvents) = 4
    /\ [k \in 1..Len(DelayEvents) |-> DelayEvents[k].arg] = <<"1000", "2000", "4000">>

\* A call whose third delay is capped at maxDelayMs.
C17_CappedWitness ==
    /\ pc = "retry_returned"
    /\ rt.maxDelayMs = 3000
    /\ [k \in 1..Len(DelayEvents) |-> DelayEvents[k].arg] = <<"1000", "2000", "3000">>

\* C18 (as claimed): a call of retry with maxAttempts <= 0 never calls fn
\* and ends at once by throwing an error.
C18_NonPositiveMaxAttemptsRejected ==
    rt.maxAttempts <= 0 =>
        /\ FnEvents = <<>>
        /\ pc # "retry" =>
              /\ pc = "retry_threw"
              /\ trace = <<>>
              /\ rt.thrown # Undefined

CheckOps == {"verifyDomain", "getZoneStatus", "getDeployment"}

CheckEvents == SelectSeq(trace, LAMBDA e : e.op \in CheckOps)

\* C19 (as claimed): in every polling loop each call of the check,
\* the first included, comes right after a delay of the interval.
C19_DelayBeforeEveryCheck ==
    \A i \in 1..Len(trace) :
        trace[i].op \in CheckOps => (i > 1 /\ trace[i-1].op = "delay")

TerminalSuccess(e) == e.ok

TerminalFailure(e) == e.op = "getDeployment" /\ e.arg \in {"ERROR", "CANCELED"}

Pending(e) == ~TerminalSuccess(e) /\ ~TerminalFailure(e)

\* C20: a polling loop calls its check at most maxAttempts times and never
\* after a terminal check; a check reporting success ends the loop with
\* true, a deployment check reporting ERROR or CANCELED ends it with false,
\* both with the check as the last event; maxAttempts pending checks end it
\* with false; and the loop returns in no other way.
C20_PollOutcome ==
    /\ Len(CheckEvents) <= poll.maxAttempts
    /\ \A i \in 1..(Len(CheckEvents) - 1) : Pending(CheckEvents[i])
    /\ Len(CheckEvents) > 0 =>
         LET last == CheckEvents[Len(CheckEvents)]
         IN  /\ TerminalSuccess(last) =>
                  /\ pc = "wait_done" /\ poll.ret = "true"
                  /\ trace[Len(trace)] = last
             /\ TerminalFailure(last) =>
                  /\ pc = "wait_done" /\ poll.ret = "false"
                  /\ trace[Len(trace)] = last
             /\ (Pending(last) /\ Len(CheckEvents) = poll.maxAttempts) =>
                  /\ pc = "wait_done" /\ poll.ret = "false"
                  /\ trace[Len(trace)] = last
             /\ (Pending(last) /\ Len(CheckEvents) < poll.maxAttempts) =>
                  pc # "wait_done"
    /\ pc = "wait_done" <=> poll.ret # "none"
    /\ poll.ret = "true" => Len(CheckEvents) > 0
    /\ (poll.ret = "false" /\ Len(CheckEvents) = 0) => poll.maxAttempts = 0

C20_Witness ==
    /\ pc = "wait_done"
    /\ poll.loop = "deployment"
    /\ poll.maxAttempts = 3
    /\ poll.ret = "false"
    /\ Len(CheckEvents) = 2
    /\ CheckEvents[1].arg = "BUILDING"
    /\ CheckEvents[2].arg = "CANCELED"

\* A verification wait that used up its attempts, and one that succeeded
\* before its last attempt.
C20_ExhaustedWitness ==
    /\ pc = "wait_done"
    /\ poll.loop = "verification"
    /\ poll.maxAttempts = 3
    /\ poll.ret = "false"
    /\ Len(CheckEvents) = 3

C20_SuccessWitness ==
    /\ pc = "wait_done"
    /\ poll.loop = "verification"
    /\ poll.maxAttempts = 3
    /\ poll.ret = "true"
    /\ Len(CheckEvents) = 2

\* A check whose request failed: verifyDomain with an error, getZoneStatus
\* returning null, the GET of the deployment throwing.
CheckFailed(e) ==
    \/ e.op = "verifyDomain" /\ e.arg = "error"
    \/ e.op = "getZoneStatus" /\ e.arg = "null"
    \/ e.op = "getDeployment" /\ e.arg = "netError"

\* C21: a failed check counts as pending: it is never the reason a wait
\* ends before its attempts are used up, and a wait whose last check
\* reports success returns true whatever failed checks came before it.
C21_CheckFailureIsPending ==
    /\ \A i \in 1..Len(CheckEvents) :
         CheckFailed(CheckEvents[i]) =>
            /\ ~CheckEvents[i].ok
            /\ i < poll.maxAttempts =>
                  \/ Len(CheckEvents) > i
                  \/ pc # "wait_done" /\ poll.ret = "none"
    /\ (Len(CheckEvents) > 0 /\ CheckEvents[Len(CheckEvents)].ok)
          => poll.ret = "true"

C21_Witness ==
    /\ pc = "wait_done"
    /\ poll.loop = "deployment"
    /\ poll.ret = "true"
    /\ Len(CheckEvents) = 3
    /\ CheckEvents[1].arg = "netError"
    /\ CheckEvents[2].arg = "netError"
    /\ CheckEvents[3].arg = "READY"

\* The same for the verification wait and the zone wait.
C21_VerificationWitness ==
    /\ poll.loop = "verification"
    /\ poll.ret = "true"
    /\ Len(CheckEvents) = 2
    /\ CheckEvents[1].arg = "error"

C21_ZoneWitness ==
    /\ poll.loop = "zone"
    /\ poll.ret = "true"
    /\ Len(CheckEvents) = 2
    /\ CheckEvents[1].arg = "null"

ZoneReturns == SelectSeq(trace, LAMBDA e : e.api = "return")

ZonePosts == Events("dns", "createZone")

\* The last call of the DNS provider made so far, if any.
LastDnsCall ==
    LET calls == SelectSeq(trace, LAMBDA e : e.api = "dns")
    IN  IF calls = <<>> THEN Ev("dns", "none", "", FALSE) ELSE calls[Len(calls)]

Step3Over == pc \in {"step4", "rb_hosting"}

\* C22 (as claimed): whenever the provider reports that the zone exists,
\* createZone returns success with alreadyExists and the id of that zone,
\* and step 3 of a run goes on to step 4.
C22_ExistingZoneAlwaysReused ==
    /\ \A i \in 2..Len(trace) :
         (trace[i].api = "return" /\ trace[i-1].op = "fetchExistingZone") =>
            /\ trace[i].op = "success"
            /\ trace[i].ok
            /\ trace[i].arg = ext.zone
    /\ (Step3Over /\ LastDnsCall.op = "fetchExistingZone") => pc = "step4"

\* C22 (amended): createZone returns success with alreadyExists and the id
\* of the existing zone exactly when the provider reports the conflict and
\* the fetch of the existing zone succeeds; every successful call returns
\* the one zone id the provider holds for the domain; at most one POST ever
\* creates a zone, none when a zone existed beforehand; step 3 goes on to
\* step 4 with that id exactly when its call succeeded, and rolls back when
\* the POST or the fetch failed.
C22_ExistingZoneReused ==
    /\ \A i \in 2..Len(trace) :
         trace[i].api = "return" =>
            /\ (trace[i-1].op = "fetchExistingZone" /\ trace[i-1].ok)
                  <=> (trace[i].op = "success" /\ trace[i].ok)
            /\ trace[i].op = "success" <=> trace[i-1].ok
            /\ trace[i].op = "success" =>
                  trace[i].arg = ext.zone /\ ext.zone # Undefined
            /\ trace[i].op = "failure" => trace[i].arg = Undefined
    /\ \A i, j \in 1..Len(ZoneReturns) :
         (ZoneReturns[i].op = "success" /\ ZoneReturns[j].op = "success")
            => ZoneReturns[i].arg = ZoneReturns[j].arg
    /\ Cardinality({ i \in 1..Len(ZonePosts) : ZonePosts[i].ok })
          = IF ext.zoneCreated THEN 1 ELSE 0
    /\ ext.zone = OldZoneId => ~ext.zoneCreated
    /\ pc = "step4" =>
         /\ LastDnsCall.ok
         /\ state.cloudflareZoneId = ext.zone
         /\ zone.id = ext.zone
         /\ result.details.cloudflareZoneId = ext.zone
         /\ result.steps["cloudflareZone"]
    /\ pc = "rb_hosting" =>
         /\ ~LastDnsCall.ok
         /\ state.cloudflareZoneId = Undefined
         /\ ~result.steps["cloudflareZone"]

C22_Witness ==
    /\ pc = "step4"
    /\ Len(ZoneReturns) = 2
    /\ ZoneReturns[1] = Ev("return", "success", NewZoneId, FALSE)
    /\ ZoneReturns[2] = Ev("return", "success", NewZoneId, TRUE)
    /\ LastDnsCall.op = "fetchExistingZone"
    /\ state.cloudflareZoneId = NewZoneId
    /\ Len(ZonePosts) = 3

\* C23 (as claimed): every call of the hosting platform made by a run
\* names the project that this run selected.
C23_RunsTargetOwnProject ==
    \A i \in 1..Len(runs.calls) :
        runs.calls[i].project = runs.sel[runs.calls[i].run]

\* The provider calls, delays and marks of the run itself, without step 0.
RunTrace == SelectSeq(trace, LAMBDA e : e.api # "deploy")

\* Every step succeeding at its first attempt, on a fresh zone, with both
\* hosting-target records created and the first verification check verified.
HappyTrace ==
    << Ev("registrar", "checkAvailability", "", TRUE),
       Ev("registrar", "purchaseDomain", "", TRUE),
       Ev("dns", "createZone", "", TRUE),
       Ev("registrar", "setNameservers", "", TRUE),
       Ev("dns", "createDNSRecord", RecordId(1), TRUE),
       Ev("dns", "createDNSRecord", RecordId(2), TRUE),
       Ev("hosting", "addDomain", "", TRUE),
       Ev("hosting", "verifyDomain", "", TRUE) >>

\* C24: a run in which every step succeeds at once and no verification
\* record is required returns success with all seven flags set, the id of
\* the created zone, the ids of the two created records in order and no
\* error, and has made no compensation call.
C24_HappyPath ==
    (pc = "done" /\ RunTrace = HappyTrace /\ verif.records = <<>>) =>
        /\ result.success
        /\ \A n \in StepNames : result.steps[n]
        /\ result.details.cloudflareZoneId = NewZoneId
        /\ result.details.dnsRecordIds = Some(<<RecordId(1), RecordId(2)>>)
        /\ result.errors = <<>>
        /\ state = [domainPurchased |-> TRUE, cloudflareZoneId |-> NewZoneId,
                    cloudflareRecordIds |-> <<RecordId(1), RecordId(2)>>,
                    vercelDomainAdded |-> TRUE]
        /\ ~RolledBack
        /\ ~Called("hosting", "removeDomain")
        /\ ~Called("dns", "deleteDNSRecord")

C24_Witness ==
    /\ pc = "done"
    /\ entry = "run"
    /\ trace = HappyTrace
    /\ verif.records = <<>>
    /\ result.success

\* The step about to run raises: a credential check fails, or the domain
\* cannot be split into name and extension.
FaultAtStep ==
    \/ pc = "step1" /\ ~validateConfig("namecheap", cfg)
    \/ pc = "step2" /\ (~validateConfig("registrant", cfg) \/ ~splitDomain(domain))
    \/ pc = "step3" /\ ~validateConfig("cloudflare", cfg)
    \/ pc = "step4" /\ ~splitDomain(domain) /\ rt.attempt = NsMaxAttempts
    \/ pc = "step6" /\ ~validateConfig("vercel", cfg)

FaultErrors ==
    { "Unexpected: " \o m :
        m \in { validateConfigMessage(sv) :
                  sv \in {"namecheap", "registrant", "cloudflare", "vercel"} }
              \cup {splitDomainMessage} }

FaultsRecorded == { i \in 1..Len(result.errors) : result.errors[i] \in FaultErrors }

\* C25: a fault raised by a step of runWorkflow is caught by the catch
\* block, which adds one "Unexpected: ..." entry and starts rollback on the
\* state as it is, rollback not having run before; a run with such an entry
\* has rolled back exactly once, from the catch block, the entry is its last
\* error, and it ends with success false.
C25_FaultTriggersRollbackOnce ==
    /\ [][FaultAtStep =>
            /\ ~RolledBack
            /\ pc' = "rb_hosting"
            /\ rb'.from = "catch"
            /\ state' = state
            /\ Len(result'.errors) = Len(result.errors) + 1
            /\ result'.errors[Len(result'.errors)] \in FaultErrors
            /\ trace' = Append(trace, RollbackMark)]_vars
    /\ [](FaultsRecorded # {} =>
            /\ FaultsRecorded = {Len(result.errors)}
            /\ rb.from = "catch"
            /\ Count(RollbackMark) = 1
            /\ pc \in {"rb_hosting", "rb_records", "done"}
            /\ ~result.success)
    /\ [](rb.from = "catch" => FaultsRecorded # {})

C25_Witness ==
    /\ pc = "done"
    /\ result.errors = <<"Unexpected: " \o validateConfigMessage("vercel")>>
    /\ state.cloudflareRecordIds = <<RecordId(1), RecordId(2)>>
    /\ Len(DeleteEvents) = 2
    /\ Warned
    /\ Count(RollbackMark) = 1
    /\ ~result.success

\* The step a provider call of the trace belongs to (0: not a call of a
\* step).  A record creation that follows addDomain is the creation of a
\* verification record, which is part of step 6.
StepRank(i) ==
    LET op == trace[i].op
    IN  IF op = "checkAvailability" THEN 1
        ELSE IF op = "purchaseDomain" THEN 2
        ELSE IF op \in {"createZone", "fetchExistingZone"} THEN 3
        ELSE IF op = "setNameservers" THEN 4
        ELSE IF op = "createDNSRecord"
        THEN (IF \E j \in 1..(i-1) : trace[j].op = "addDomain" THEN 6 ELSE 5)
        ELSE IF op \in {"addDomain", "getDomainStatus"} THEN 6
        ELSE IF op = "verifyDomain" THEN 7
        ELSE 0

OnceOps == {"checkAvailability", "purchaseDomain", "createZone", "setNameservers", "addDomain"}

TheEvent(op) == SelectSeq(trace, LAMBDA e : e.op = op)[1]

\* C26: the calls of the steps appear in the order of the steps; the calls
\* of steps 1-4 and addDomain are made at most once; a step's call is made
\* only after the call of the step before it succeeded (for step 6: after
\* the whole batch of step 5 was attempted) and with that step's effect in
\* the state; and no call of a step follows the start of rollback.
C26_LinearOrder ==
    /\ \A i, j \in 1..Len(trace) :
         (i < j /\ StepRank(i) > 0 /\ StepRank(j) > 0) => StepRank(i) <= StepRank(j)
    /\ \A op \in OnceOps : Len(SelectSeq(trace, LAMBDA e : e.op = op)) <= 1
    /\ Called("registrar", "purchaseDomain") => TheEvent("checkAvailability").ok
    /\ Called("dns", "createZone") =>
         /\ TheEvent("purchaseDomain").ok
         /\ ext.purchased
         /\ state.domainPurchased
    /\ Called("registrar", "setNameservers") =>
         /\ state.cloudflareZoneId # Undefined
         /\ state.cloudflareZoneId = ext.zone
         /\ result.steps["cloudflareZone"]
    /\ Called("dns", "createDNSRecord") =>
         /\ TheEvent("setNameservers").ok
         /\ result.steps["nameserversSet"]
    /\ Called("hosting", "addDomain") =>
         /\ Len(CreateEvents) >= Len(getVercelDNSRecords)
         /\ result.details.dnsRecordIds # None
         /\ \A k \in 1..Len(batch.recordIds) :
               state.cloudflareRecordIds[k] = batch.recordIds[k]
    /\ Called("hosting", "verifyDomain") =>
         /\ state.vercelDomainAdded
         /\ result.steps["vercelDomain"]
    /\ \A i \in 1..Len(trace) :
         (RolledBack /\ i > FirstRollback) => StepRank(i) = 0

C26_Witness ==
    /\ pc = "done"
    /\ Len(VerifyEvents) = 2
    /\ Len(CreateEvents) = 3
    /\ Called("dns", "fetchExistingZone")
    /\ \E i \in 1..Len(trace) :
          trace[i].op = "createDNSRecord" /\ StepRank(i) = 6

RetryNotifications == Events("log", "onRetry")

\* C27: when retry returns, fn has been called k <= maxAttempts times, the
\* first k-1 calls failed and the k-th resolved with the value returned;
\* with onRetry given, the i-th failed call that is not the last attempt is
\* followed at once by the notification (i, error of call i), so a return at
\* attempt k has k-1 notifications and a call that gives up has
\* maxAttempts-1; without onRetry there is none; either error is retried.
C27_RetryNotifications ==
    /\ pc = "retry_returned" =>
         /\ Len(FnEvents) >= 1 /\ Len(FnEvents) <= rt.maxAttempts
         /\ \A i \in 1..(Len(FnEvents) - 1) : ~FnEvents[i].ok
         /\ FnEvents[Len(FnEvents)].ok
         /\ rt.returned = FnEvents[Len(FnEvents)].arg
         /\ rt.onRetry => Len(RetryNotifications) = Len(FnEvents) - 1
    /\ (pc = "retry_threw" /\ rt.maxAttempts >= 1 /\ rt.onRetry)
          => Len(RetryNotifications) = rt.maxAttempts - 1
    /\ ~rt.onRetry => RetryNotifications = <<>>
    /\ \A i \in 1..Len(RetryNotifications) :
         RetryNotifications[i].arg = ToString(i) \o " " \o FnEvents[i].arg
    /\ \A i \in 1..Len(trace) :
         (trace[i].op = "fn" /\ ~trace[i].ok /\ rt.onRetry /\ i < Len(trace))
            => trace[i+1].op = "onRetry"
    /\ \A i \in 1..Len(FnEvents) :
         (~FnEvents[i].ok /\ i < rt.maxAttempts) =>
            \/ Len(FnEvents) > i
            \/ pc \in {"retry", "retry_delay"}

C27_Witness ==
    /\ pc = "retry_returned"
    /\ rt.onRetry
    /\ rt.maxAttempts = 4
    /\ [i \in 1..Len(FnEvents) |-> FnEvents[i].arg] = <<"E2", "E1", "V2">>
    /\ [i \in 1..Len(RetryNotifications) |-> RetryNotifications[i].arg]
          = <<"1 E2", "2 E1">>
    /\ rt.returned = "V2"

IsPrefixOf(a, b) == Len(a) <= Len(b) /\ \A i \in 1..Len(a) : a[i] = b[i]

\* C28: in step 5 the only record-creation call that can be in flight is the
\* one for the record after those already answered, so at most one is in
\* flight and call i+1 starts after call i has completed; the ids collected
\* so far stay, in order, whatever the later calls answer; and when the step
\* is over the state holds the id of every call that succeeded.
C28_SequentialCreation ==
    /\ [](batch.ret = "step5" =>
            /\ Cardinality(batch.inFlight) <= 1
            /\ batch.inFlight \subseteq {Len(batch.recordIds) + Len(batch.errors) + 1}
            /\ (batch.inFlight # {} => pc = "batch"))
    /\ [][(batch.ret = "step5" /\ pc = "batch")
             => IsPrefixOf(batch.recordIds, batch'.recordIds)]_vars
    /\ [](batch.ret = "step5" /\ pc # "batch" /\ pc # "step4" =>
            /\ IsPrefixOf(batch.recordIds, state.cloudflareRecordIds)
            /\ Len(batch.recordIds) + Len(batch.errors) = Len(batch.records))

C28_Witness ==
    /\ batch.ret = "step5"
    /\ pc = "step6"
    /\ batch.inFlight = {}
    /\ Len(batch.errors) = 1
    /\ ~CreateEvents[2].ok
    /\ batch.recordIds = <<RecordId(1)>>
    /\ state.cloudflareRecordIds = <<RecordId(1)>>

AddAnswered ==
    \/ \E i \in 1..Len(trace) : trace[i].op = "addDomain" /\ trace[i].ok
    \/ \E i \in 1..Len(trace) : trace[i].op = "getDomainStatus" /\ trace[i].ok

\* The record creations that follow the addDomain call, in call order.
TxtEvents ==
    LET i == CHOOSE k \in 1..Len(trace) : trace[k].op = "addDomain"
    IN  SelectSeq(SubSeq(trace, i + 1, Len(trace)), LAMBDA e : e.op = "createDNSRecord")

TxtCreatedIds ==
    LET okEvents == SelectSeq(TxtEvents, LAMBDA e : e.ok)
    IN  [i \in 1..Len(okEvents) |-> okEvents[i].arg]

ReturnedTxt == SelectSeq(verif.returned, LAMBDA t : t = "TXT")

\* C29: once addDomain has answered with success, state.vercelDomainAdded
\* and the vercelDomain flag are set (no call lies between the answer and the
\* flags); the record creations that follow are in the run's zone and, when
\* step 6 is over, one per TXT verification record the platform returned;
\* the ids of the created ones follow those of step 5 in
\* state.cloudflareRecordIds, in creation order.
C29_VerificationRecords ==
    /\ AddAnswered =>
          /\ state.vercelDomainAdded
          /\ result.steps["vercelDomain"]
          /\ ext.recordZones \subseteq {zone.id}
          /\ Len(TxtEvents) <= Len(ReturnedTxt)
          /\ pc = "step6_txt" => Len(TxtEvents) < Len(ReturnedTxt)
          /\ pc \notin {"step6", "step6_txt"} => Len(TxtEvents) = Len(ReturnedTxt)
          /\ state.cloudflareRecordIds = batch.recordIds \o TxtCreatedIds
    /\ ~AddAnswered =>
          /\ ~state.vercelDomainAdded
          /\ ~result.steps["vercelDomain"]
          /\ Called("hosting", "addDomain") => TxtEvents = <<>>

C29_Witness ==
    /\ pc = "step7"
    /\ verif.returned = <<"TXT", "CNAME">>
    /\ Len(TxtEvents) = 1
    /\ state.vercelDomainAdded
    /\ batch.recordIds = <<RecordId(1)>>
    /\ state.cloudflareRecordIds = <<RecordId(1), RecordId(2)>>

StatusEvent == SelectSeq(trace, LAMBDA e : e.op = "getDomainStatus")[1]

AddError == "Vercel Add: vercel error"

\* C30: when the POST of addDomain is answered with a conflict, the status of
\* the existing domain is fetched once; unless that fetch fails, step 6
\* passes: the domain counts as added, no "Vercel Add" error is recorded, and
\* verification records are returned only for a domain the platform reports
\* as unverified with a verification array; when the fetch fails, step 6
\* records the error and rolls back without the domain counting as added.
C30_ConflictIsSuccess ==
    Called("hosting", "getDomainStatus") =>
        /\ Len(SelectSeq(trace, LAMBDA e : e.op = "getDomainStatus")) = 1
        /\ ~TheEvent("addDomain").ok
        /\ ~ext.hostingAdded
        /\ StatusEvent.ok <=> StatusEvent.arg # "error"
        /\ StatusEvent.ok =>
              /\ state.vercelDomainAdded
              /\ result.steps["vercelDomain"]
              /\ ~InErrors(AddError)
              /\ pc # "step6"
              /\ StatusEvent.arg # "needsVerification" =>
                    verif.returned = <<>> /\ TxtEvents = <<>>
        /\ ~StatusEvent.ok =>
              /\ ~state.vercelDomainAdded
              /\ ~result.steps["vercelDomain"]
              /\ InErrors(AddError)
              /\ RolledBack
              /\ ~Called("hosting", "verifyDomain")

C30_Witness ==
    /\ Called("hosting", "getDomainStatus")
    /\ StatusEvent.arg = "needsVerification"
    /\ verif.returned = <<"TXT">>
    /\ Len(TxtEvents) = 1
    /\ pc = "done"
    /\ result.success

C30_FetchFailureWitness ==
    /\ Called("hosting", "getDomainStatus")
    /\ ~StatusEvent.ok
    /\ pc = "done"

\* The record creations of step 5: those before the addDomain call.
Step5Events ==
    SelectSeq([i \in 1..Len(trace) |-> [e |-> trace[i], rank |-> StepRank(i)]],
              LAMBDA x : x.e.op = "createDNSRecord" /\ x.rank = 5)

Step5Failures == Len(SelectSeq(Step5Events, LAMBDA x : ~x.e.ok))

\* C31: result.errors only ever grows by appending; once step 5 is over it
\* starts with one entry per record whose creation failed, and the entry of
\* a later failure (step 6, step 7 or a thrown error) follows them: a run
\* that ends with step 6 failed or a fault has the record entries and that
\* one entry, a run that ends unverified has the record entries and the
\* verification entry, and a run whose later steps passed has the record
\* entries only.
C31_ErrorsAccumulate ==
    /\ [][IsPrefixOf(result.errors, result'.errors)]_vars
    /\ [](batch.ret = "step5" /\ pc # "batch" =>
            /\ Len(batch.errors) = Step5Failures
            /\ IsPrefixOf(batch.errors, result.errors)
            /\ Len(result.errors) <= Len(batch.errors) + 1
            /\ (pc = "done" /\ ~result.steps["vercelDomain"]) =>
                  \E e \in {AddError, "Unexpected: " \o validateConfigMessage("vercel")} :
                      result.errors = Append(batch.errors, e)
            /\ (pc = "done" /\ result.steps["vercelDomain"]
                  /\ ~result.steps["vercelVerified"]) =>
                  result.errors = Append(batch.errors, VerificationError)
            /\ (pc = "done" /\ result.steps["vercelVerified"]) =>
                  result.errors = batch.errors)

C31_Witness ==
    /\ pc = "done"
    /\ batch.ret = "step5"
    /\ Step5Failures = 2
    /\ Len(batch.errors) = 2
    /\ result.errors = Append(batch.errors, VerificationError)

C31_Step6Witness ==
    /\ pc = "done"
    /\ batch.ret = "step5"
    /\ Step5Failures = 1
    /\ result.errors = Append(batch.errors, AddError)

Calls(api, op) == Len(Events(api, op))

CallBudget ==
    /\ Calls("registrar", "checkAvailability") <= 1
    /\ Calls("registrar", "purchaseDomain") <= 1
    /\ Calls("dns", "createZone") <= 1
    /\ Calls("dns", "fetchExistingZone") <= 1
    /\ Calls("registrar", "setNameservers") <= 3
    /\ Calls("dns", "createDNSRecord") <= Len(getVercelDNSRecords) + Len(verif.returned)
    /\ Calls("hosting", "addDomain") <= 1
    /\ Calls("hosting", "getDomainStatus") <= 1
    /\ Calls("hosting", "verifyDomain") <= 10
    /\ Count(RollbackMark) <= 1
    /\ Calls("hosting", "removeDomain") <= 1
    /\ Calls("dns", "deleteDNSRecord") <= Len(state.cloudflareRecordIds)

\* C32: when every call and delay returns, every run of the saga that has
\* started reaches the return of its result, and at no moment has it made more than one availability
\* check, purchase, zone creation, zone fetch, hosting add and status fetch,
\* three nameserver delegations, one record creation per hosting target and
\* verification record, ten verification checks, or one rollback (with one
\* hosting removal and one deletion per recorded id).
C32_RunTerminates == ((pc = "step1") ~> (pc = "done")) /\ []CallBudget

C32_Witness ==
    /\ pc = "done"
    /\ Calls("hosting", "verifyDomain") = 10
    /\ Calls("hosting", "getDomainStatus") = 1
    /\ verif.returned = <<"TXT", "TXT">>
    /\ Calls("dns", "createDNSRecord") = 4
    /\ ~result.success

C32_RollbackWitness ==
    /\ pc = "done"
    /\ Count(RollbackMark) = 1
    /\ Calls("dns", "deleteDNSRecord") = 2

\* C33: no zone-deletion call is ever made; while rollback runs, the zone
\* at the DNS provider and the delegation at the registrar stay as they
\* were; so when a run that had a zone ends rolled back, that zone still
\* exists at the provider and a delegation set in step 4 still names its
\* nameservers.
C33_RollbackKeepsZone ==
    /\ [](~Called("dns", "deleteZone"))
    /\ [][(pc = "rb_hosting" \/ pc = "rb_records") =>
             (ext'.zone = ext.zone /\ ext'.delegation = ext.delegation)]_vars
    /\ []((pc = "done" /\ RolledBack /\ state.cloudflareZoneId # Undefined) =>
             /\ ext.zone = state.cloudflareZoneId
             /\ result.steps["nameserversSet"] => ext.delegation = zone.nameServers
             /\ ~result.steps["nameserversSet"] => ext.delegation = <<>>)

C33_Witness ==
    /\ pc = "done"
    /\ RolledBack
    /\ InErrors(AddError)
    /\ ext.zone = NewZoneId
    /\ ext.delegation = ZoneNameservers
    /\ Calls("dns", "deleteDNSRecord") = 2

C33_Step4Witness ==
    /\ pc = "done"
    /\ RolledBack
    /\ ~result.steps["nameserversSet"]
    /\ ext.zone = OldZoneId
    /\ state.cloudflareZoneId = OldZoneId

LastError == result.errors[Len(result.errors)]

\* C34: a rollback started in the try block comes from the failure branch
\* of step 3, 4 or 6 (steps 1 and 2 passed, the failed step's flag is false
\* and its entry is the last error) and finds vercelDomainAdded false; a run
\* without a recorded fault never calls removeDomain; and removeDomain is
\* called only by a rollback started in the catch block after step 6 has
\* set vercelDomainAdded.
C34_RemovalOnlyAfterFault ==
    /\ rb.from = "try" =>
          /\ result.steps["availabilityCheck"] /\ result.steps["domainPurchase"]
          /\ ~state.vercelDomainAdded
          /\ ~result.steps["vercelDomain"]
          /\ ~Called("hosting", "verifyDomain")
          /\ \/ ~result.steps["cloudflareZone"]
                  /\ \E m \in ZoneMessages \cup {"Zone not found"} :
                        LastError = "Cloudflare Zone: " \o m
             \/ result.steps["cloudflareZone"] /\ ~result.steps["nameserversSet"]
                  /\ \E m \in {"api error", "network error", Undefined} :
                        LastError = "Nameservers: " \o m
             \/ result.steps["nameserversSet"] /\ LastError = AddError
    /\ FaultsRecorded = {} => ~Called("hosting", "removeDomain")
    /\ Called("hosting", "removeDomain") =>
          /\ rb.from = "catch"
          /\ state.vercelDomainAdded
          /\ result.steps["vercelDomain"]

C34_Witness ==
    /\ pc = "done"
    /\ rb.from = "try"
    /\ LastError = AddError
    /\ ext.hostingPresent
    /\ Calls("hosting", "getDomainStatus") = 1
    /\ Calls("dns", "deleteDNSRecord") = 1
    /\ ~Called("hosting", "removeDomain")

Purchased == Called("registrar", "purchaseDomain") /\ TheEvent("purchaseDomain").ok

\* C35: steps 1 and 2 raise no fault when the registrar's and the
\* registrant's configuration are present, whatever the other credentials;
\* after a successful purchase with the DNS provider's credentials missing
\* no DNS or hosting call is ever made, and the run ends with
\* state.domainPurchased and the domainPurchase flag true, success false,
\* the "Unexpected" entry of the missing credential as its only error, and
\* a rollback from the catch block whose only act is the warning.
C35_CredentialsCheckedAfterPurchase ==
    /\ [][(pc = "step1" /\ "namecheap" \in cfg)
             => (pc' = "step2" \/ pc' = "done")]_vars
    /\ [][(pc = "step2" /\ "registrant" \in cfg /\ splitDomain(domain))
             => (pc' = "step3" \/ pc' = "done")]_vars
    /\ []((Purchased /\ "cloudflare" \notin cfg) =>
             /\ state.domainPurchased
             /\ result.steps["domainPurchase"]
             /\ \A i \in 1..Len(trace) : trace[i].api \notin {"dns", "hosting"}
             /\ pc \in {"step3", "rb_hosting", "rb_records", "done"}
             /\ pc = "done" =>
                   /\ ~result.success
                   /\ result.errors =
                         <<"Unexpected: " \o validateConfigMessage("cloudflare")>>
                   /\ rb.from = "catch"
                   /\ Count(RollbackMark) = 1
                   /\ trace[Len(trace)] = ManualWarning
                   /\ trace[Len(trace) - 1] = RollbackMark)

C35_Witness ==
    /\ pc = "done"
    /\ Purchased
    /\ cfg = {"namecheap", "registrant"}
    /\ state.domainPurchased
    /\ ext.purchased
    /\ ~result.success
    /\ Warned

\* C36: a creation of a verification record in step 6, failed or not,
\* leaves the errors and the step flags as they were and is followed by the
\* next record or by step 7; no creation is made for a verification record
\* that is not of type TXT; so the errors of a finished run never mention a
\* verification record, however many of their creations failed.
C36_TxtFailureIgnored ==
    /\ [][pc = "step6_txt" =>
            /\ result'.errors = result.errors
            /\ result'.steps = result.steps
            /\ result'.success = result.success
            /\ (pc' = "step6_txt" \/ pc' = "step7")]_vars
    /\ [](AddAnswered =>
            /\ Len(TxtEvents) <= Len(ReturnedTxt)
            /\ Len(result.errors)
                  <= Len(batch.errors) + (IF result.steps["vercelVerified"] THEN 0 ELSE 1))
    /\ []((pc = "done" /\ AllSteps(result.steps)) => result.success)

C36_Witness ==
    /\ pc = "done"
    /\ result.success
    /\ result.errors = <<>>
    /\ verif.returned = <<"CNAME", "TXT">>
    /\ Len(TxtEvents) = 1
    /\ ~TxtEvents[1].ok

\* C37: from the end of step 5 on, result.details.dnsRecordIds is the
\* sequence state.cloudflareRecordIds: it holds the ids of the verification
\* records created in step 6, and rollback leaves it as it was, so the ids
\* of the records rollback has deleted are still listed.
C37_ResultListsStateIds ==
    /\ []((batch.ret = "step5" /\ pc # "batch") =>
            /\ result.details.dnsRecordIds = Some(state.cloudflareRecordIds)
            /\ ext.deleted \subseteq SeqToSet(state.cloudflareRecordIds)
            /\ AddAnswered =>
                  SeqToSet(TxtCreatedIds) \subseteq SeqToSet(state.cloudflareRecordIds))
    /\ []((batch.ret # "step5" \/ pc = "batch") => result.details.dnsRecordIds = None)
    /\ [][(pc = "rb_hosting" \/ pc = "rb_records") =>
             result'.details.dnsRecordIds = result.details.dnsRecordIds]_vars

C37_Witness ==
    /\ pc = "done"
    /\ RolledBack
    /\ ext.deleted = {RecordId(1), RecordId(2)}
    /\ result.details.dnsRecordIds = Some(<<RecordId(1), RecordId(2)>>)

C37_TxtWitness ==
    /\ pc = "done"
    /\ AddAnswered
    /\ TxtCreatedIds = <<RecordId(3)>>
    /\ result.details.dnsRecordIds = Some(<<RecordId(1), RecordId(2), RecordId(3)>>)

DeployReturned == dep.calls # <<>> /\ dep.calls[1].pc = "returned"

DomainCalls == { i \in 1..Len(trace) : trace[i].api \in {"registrar", "dns", "hosting"} }

\* C38: once deployZipToVercel has returned a failure, runWorkflowWithDeploy
\* makes no registrar, DNS or hosting-domain call and ends with success
\* false, the seven flags false and the one error "Deploy: <message>"; the
\* saga is at a step only after a successful deployment, and then a project
\* id the deployment returned is the hosting project of the configuration.
C38_DeployBeforeSaga ==
    /\ (DeployReturned /\ ~dep.calls[1].result.success) =>
          /\ pc \in {"deploying", "done"}
          /\ DomainCalls = {}
          /\ pc = "done" =>
                /\ ~result.success
                /\ \A st \in StepNames : ~result.steps[st]
                /\ result.errors = <<"Deploy: " \o dep.calls[1].result.errorMessage>>
    /\ (dep.calls # <<>> /\ dep.calls[1].pc = "threw") =>
          /\ pc \in {"deploying", "rejected"}
          /\ DomainCalls = {}
    /\ (pc \in {"step1", "step2"} \/ DomainCalls # {}) =>
          /\ DeployReturned
          /\ dep.calls[1].result.success
          /\ dep.calls[1].result.vercelProjectId # Undefined =>
                /\ runs.projectId = dep.calls[1].result.vercelProjectId
                /\ validateConfig("vercel", cfg)

C38_Witness ==
    /\ pc = "done"
    /\ DeployReturned
    /\ dep.calls[1].result = DeployFailure("vercel error")
    /\ result.errors = <<"Deploy: vercel error">>
    /\ trace[Len(trace)] = Ev("deploy", "deployToVercel", "1", FALSE)

C38_InstalledWitness ==
    /\ pc = "step2"
    /\ EnvProject \notin {runs.projectId}
    /\ runs.projectId = DeployedProject(1)
    /\ Called("registrar", "checkAvailability")

VercelDeployed ==
    \E i \in 1..Len(trace) : trace[i].op = "deployToVercel" /\ trace[i].ok

DeploymentChecks == Events("deploy", "getDeployment")

\* C39: once the upload and deployToVercel have succeeded, deployZipToVercel
\* returns success true whatever the wait returns: after a wait that ended
\* not ready (ERROR, CANCELED or the budget used up) the result still has
\* success true and the url the deployment was created with, the url is
\* another one only after a wait that ended ready, and in each case
\* runWorkflowWithDeploy goes on to the first step of the saga.
C39_UnreadyDeploymentSucceeds ==
    (VercelDeployed /\ DeployReturned) =>
        /\ dep.calls[1].result.success
        /\ dep.calls[1].result.errorMessage = Undefined
        /\ poll.ret = "false" =>
              dep.calls[1].result.deploymentUrl = DeployUrl(1)
        /\ dep.calls[1].result.deploymentUrl \notin {DeployUrl(1), Undefined} =>
              /\ poll.ret = "true"
              /\ DeploymentChecks[Len(DeploymentChecks)].arg = "READY"
              /\ dep.calls[1].result.deploymentUrl = FinalUrl(1)
        /\ pc \in {"deploying", "step1", "step2", "done"}
        /\ pc = "done" => Called("registrar", "checkAvailability")
        /\ ~InErrors("Deploy: deployment not ready")

C39_Witness ==
    /\ pc = "step2"
    /\ VercelDeployed
    /\ poll.ret = "false"
    /\ DeploymentChecks # <<>>
    /\ DeploymentChecks[Len(DeploymentChecks)].arg = "ERROR"
    /\ dep.calls[1].result.success
    /\ dep.calls[1].result.deploymentUrl = DeployUrl(1)

C39_TimedOutWitness ==
    /\ pc = "step2"
    /\ poll.ret = "false"
    /\ Len(DeploymentChecks) = 3
    /\ \A i \in 1..3 : DeploymentChecks[i].arg \in {"BUILDING", "netError"}
    /\ dep.calls[1].result.success

\* A call between the end of its extraction and its cleanup.
Working(c) == dep.calls[c].pc \in {"github_repo", "github_upload", "vercel", "waiting"}

\* C40 (as claimed): while a call is between its extraction and its cleanup
\* the extracted directory holds the files of its ZIP, the files it uploads
\* or deploys are those files, and when all calls have ended no extracted
\* directory is left.
C40_CallsDoNotInterfere ==
    /\ \A c \in DOMAIN dep.calls :
         /\ Working(c) => dep.dir = ZipFiles(c)
         /\ dep.calls[c].github \in {Undefined, ZipFiles(c)}
         /\ dep.calls[c].vercel \in {Undefined, ZipFiles(c)}
    /\ (\A c \in DOMAIN dep.calls : dep.calls[c].pc \in {"returned", "threw"})
          => dep.dir = "none"

\* A single call does have its own directory throughout.
C40_SingleCallOwnsDirectory == pc # "two_deploys" => C40_CallsDoNotInterfere

====
